---- MODULE Spec2Model ----
(***************************************************************************)
(* Verification model of the rollcall attendance application.              *)
(*                                                                         *)
(*   SpecAuth : AuthService (src/src/services/authService.ts), the        *)
(*              process-wide identity session with its                     *)
(*              interactionInProgress flag, run by concurrent callers.     *)
(*   Spec     : GraphService (src/src/services/graphService.ts) together   *)
(*              with the SubmissionTracker view: local storage, the remote *)
(*              worksheets' submission markers, one submitAttendance and   *)
(*              one getDepartmentSubmissions call in flight.               *)
(*   SpecRoster : GraphService.getEmployeesByDepartment read at any point  *)
(*              of the day, with its fallback to the built-in roster.      *)
(*                                                                         *)
(* Every asynchronous method is split at its awaits: one action per        *)
(* synchronous segment, so that other callbacks interleave exactly where   *)
(* the JavaScript event loop lets them.                                    *)
(***************************************************************************)
EXTENDS Integers, Sequences, FiniteSets, TLC

VARIABLES
  \* ---- AuthService ----
  initialized,            \* AuthService.initialized
  interactionInProgress,  \* AuthService.interactionInProgress
  msalAccounts,           \* msalInstance.getAllAccounts()
  activeAccount,          \* msalInstance.getActiveAccount()
  mockAccount,            \* localStorage['mockAccount']
  authPc,                 \* position of each caller inside an AuthService method
  authRes,                \* how each caller's last AuthService call ended
  \* ---- local storage ----
  mockUser,               \* localStorage['mockUser'] is present
  localSubs,              \* localStorage['submissions_<today>']
  localAtt,               \* localStorage['attendance_<department>_<today>']
  \* ---- remote workbook ----
  sheet,                  \* per department worksheet: today's column and last row
  \* ---- GraphService calls in flight ----
  now,                    \* the latest time new Date() has returned
  sa,                     \* the submitAttendance call in flight
  gd,                     \* the getDepartmentSubmissions call in flight
  ge,                     \* the last getEmployeesByDepartment call
  summaryCalls,           \* number of sendAttendanceSummaryToTeams invocations today
  \* ---- helpers and the attendance form ----
  cl,                     \* the getExcelColumnLetter call in progress
  form,                   \* AttendanceForm: department and employees state
  \* ---- App and SubmissionTracker ----
  app,                    \* App: its state hooks and the handler in progress
  tr,                     \* SubmissionTracker: submissions and error state
  \* ---- the calendar ----
  day,                    \* the calendar day format(new Date(), 'yyyy-MM-dd') yields
  earlier                 \* localStorage keys of the days before today

authVars == <<initialized, interactionInProgress, msalAccounts, activeAccount,
              mockAccount, authPc, authRes>>

graphVars == <<mockUser, localSubs, localAtt, sheet, now, sa, gd, ge,
               summaryCalls>>

uiVars == <<app, tr, day, earlier>>

formVars == <<cl, form, uiVars>>

vars == <<initialized, interactionInProgress, msalAccounts, activeAccount,
          mockAccount, authPc, authRes, mockUser, localSubs, localAtt, sheet,
          now, sa, gd, ge, summaryCalls, cl, form, app, tr, day, earlier>>

None == "none"

\* an absent timestamp (submittedAt undefined, an empty cell)
NoTime == -1

\* localStorage.getItem: null when the key is absent, else the stored value
NoItem == <<>>
Item(v) == <<v>>
HasItem(x) == Len(x) > 0
ValueOf(x) == x[1]

(***************************************************************************)
(* Bounds                                                                  *)
(***************************************************************************)
NumCallers == 2
MaxNow == 1
MaxSummaryCalls == 2
MaxStatusRows == 1
MaxEmployees == 1
NumWorksheets == 2
MaxColumnIndex == 702

AuthCallers == 1..NumCallers

(***************************************************************************)
(* AuthService                                                             *)
(***************************************************************************)
MsalAccount == "acct"
MockAccountJson == "mockAccount"
\* a value under the 'mockAccount' key that is not JSON
CorruptJson == "{corrupt"

\* JSON.parse of a stored value: the value, or the SyntaxError it throws
JSONparse(v) == IF v = CorruptJson THEN "SyntaxError" ELSE v

InteractiveLoginPcs == {"login_redirect", "login_popup"}
InteractiveTokenPcs == {"token_redirect", "token_popup"}
InteractiveLogoutPcs == {"logout_redirect", "logout_popup"}
InteractiveCredPcs == {"cred_wait"}

\* the positions at which a caller is inside an interactive identity flow
InteractivePcs ==
  InteractiveLoginPcs \cup InteractiveTokenPcs \cup InteractiveLogoutPcs
    \cup InteractiveCredPcs

AuthPcs ==
  {"idle", "done", "login_init", "login_silent", "login_token",
   "cred_init", "logout_init", "token_init", "token_silent"}
    \cup InteractivePcs

AuthResults ==
  {None, "ok", "redirect", "InteractionConflict", "NoActiveSession", "error",
   "no_account", MsalAccount, MockAccountJson}

\* getAccount() with the parse error of the stored account let through
getAccountParseUncaught ==
  IF ~initialized THEN None
  ELSE IF activeAccount # None THEN activeAccount
  ELSE IF Len(msalAccounts) > 0 THEN msalAccounts[1]
  ELSE IF mockAccount # None THEN JSONparse(mockAccount)
  ELSE None

\* getAccount(): the account it returns
getAccount ==
  IF ~initialized THEN None
  ELSE IF activeAccount # None THEN activeAccount
  ELSE IF Len(msalAccounts) > 0 THEN msalAccounts[1]
  ELSE IF mockAccount # None /\ JSONparse(mockAccount) # "SyntaxError"
       THEN JSONparse(mockAccount)
  ELSE None

\* getAccount(): the active account it leaves behind (setActiveAccount(accounts[0]))
getAccountActive ==
  IF initialized /\ activeAccount = None /\ Len(msalAccounts) > 0
  THEN msalAccounts[1]
  ELSE activeAccount

\* a caller finishes its method with result r
Finish(p, r) ==
  /\ authPc' = [authPc EXCEPT ![p] = "done"]
  /\ authRes' = [authRes EXCEPT ![p] = r]

Goto(p, pc) ==
  /\ authPc' = [authPc EXCEPT ![p] = pc]
  /\ UNCHANGED authRes

\* initialize(): msal initialised, first cached account made active
Initialize ==
  /\ ~initialized
  /\ initialized' = TRUE
  /\ activeAccount' =
       IF Len(msalAccounts) > 0 THEN msalAccounts[1] ELSE activeAccount
  /\ UNCHANGED <<interactionInProgress, msalAccounts, mockAccount, authPc, authRes>>
  /\ UNCHANGED <<graphVars, formVars>>

\* ---- login() ----
LoginCall(p) ==
  /\ authPc[p] = "idle"
  /\ Goto(p, "login_init")
  /\ UNCHANGED <<initialized, interactionInProgress, msalAccounts,
                 activeAccount, mockAccount>>
  /\ UNCHANGED <<graphVars, formVars>>

\* after ensureInitialized: the flag check, then silent reuse or the redirect
LoginStart(p) ==
  /\ authPc[p] = "login_init"
  /\ initialized
  /\ IF interactionInProgress
     THEN \* throw; the outer catch clears the flag
          /\ interactionInProgress' = FALSE
          /\ Finish(p, "InteractionConflict")
          /\ UNCHANGED activeAccount
     ELSE IF Len(msalAccounts) > 0
     THEN /\ activeAccount' = msalAccounts[1]
          /\ Goto(p, "login_silent")
          /\ UNCHANGED interactionInProgress
     ELSE /\ interactionInProgress' = TRUE
          /\ Goto(p, "login_redirect")
          /\ UNCHANGED activeAccount
  /\ UNCHANGED <<initialized, msalAccounts, mockAccount>>
  /\ UNCHANGED <<graphVars, formVars>>

\* acquireTokenSilent settles
LoginSilent(p) ==
  /\ authPc[p] = "login_silent"
  /\ \E ok \in BOOLEAN :
       IF ok
       THEN /\ Finish(p, "ok")
            /\ UNCHANGED interactionInProgress
       ELSE /\ interactionInProgress' = TRUE
            /\ Goto(p, "login_redirect")
  /\ UNCHANGED <<initialized, msalAccounts, activeAccount, mockAccount>>
  /\ UNCHANGED <<graphVars, formVars>>

\* loginRedirect settles
LoginRedirect(p) ==
  /\ authPc[p] = "login_redirect"
  /\ \E ok \in BOOLEAN :
       IF ok
       THEN \* return null; finally clears the flag
            /\ interactionInProgress' = FALSE
            /\ Finish(p, "redirect")
       ELSE /\ Goto(p, "login_popup")
            /\ UNCHANGED interactionInProgress
  /\ UNCHANGED <<initialized, msalAccounts, activeAccount, mockAccount>>
  /\ UNCHANGED <<graphVars, formVars>>

\* loginPopup settles
LoginPopup(p) ==
  /\ authPc[p] = "login_popup"
  /\ \E ok \in BOOLEAN :
       IF ok
       THEN /\ msalAccounts' =
                 IF \E i \in 1..Len(msalAccounts) : msalAccounts[i] = MsalAccount
                 THEN msalAccounts
                 ELSE Append(msalAccounts, MsalAccount)
            /\ activeAccount' = MsalAccount
            /\ Goto(p, "login_token")
            /\ UNCHANGED interactionInProgress
       ELSE \* throw popupError; finally and the outer catch clear the flag
            /\ interactionInProgress' = FALSE
            /\ Finish(p, "error")
            /\ UNCHANGED <<msalAccounts, activeAccount>>
  /\ UNCHANGED <<initialized, mockAccount>>
  /\ UNCHANGED <<graphVars, formVars>>

\* the forced acquireTokenSilent after the popup settles (its failure is swallowed)
LoginToken(p) ==
  /\ authPc[p] = "login_token"
  /\ interactionInProgress' = FALSE
  /\ Finish(p, "ok")
  /\ UNCHANGED <<initialized, msalAccounts, activeAccount, mockAccount>>
  /\ UNCHANGED <<graphVars, formVars>>

\* ---- loginWithCredentials(email, password) ----
CredCall(p) ==
  /\ authPc[p] = "idle"
  /\ Goto(p, "cred_init")
  /\ UNCHANGED <<initialized, interactionInProgress, msalAccounts,
                 activeAccount, mockAccount>>
  /\ UNCHANGED <<graphVars, formVars>>

CredStart(p) ==
  /\ authPc[p] = "cred_init"
  /\ initialized
  /\ IF interactionInProgress
     THEN \* throw; the finally clears the flag
          /\ interactionInProgress' = FALSE
          /\ Finish(p, "InteractionConflict")
          /\ UNCHANGED mockAccount
     ELSE /\ interactionInProgress' = TRUE
          /\ mockAccount' = MockAccountJson
          /\ Goto(p, "cred_wait")
  /\ UNCHANGED <<initialized, msalAccounts, activeAccount>>
  /\ UNCHANGED <<graphVars, formVars>>

\* the wait is over and the flag is left as it is
CredDoneKeepsFlag(p) ==
  /\ authPc[p] = "cred_wait"
  /\ Finish(p, "ok")
  /\ UNCHANGED <<initialized, interactionInProgress, msalAccounts,
                 activeAccount, mockAccount>>
  /\ UNCHANGED <<graphVars, formVars>>

\* the simulated network wait is over
CredDone(p) ==
  /\ authPc[p] = "cred_wait"
  /\ interactionInProgress' = FALSE
  /\ Finish(p, "ok")
  /\ UNCHANGED <<initialized, msalAccounts, activeAccount, mockAccount>>
  /\ UNCHANGED <<graphVars, formVars>>

\* ---- logout() ----
LogoutCall(p) ==
  /\ authPc[p] = "idle"
  /\ Goto(p, "logout_init")
  /\ UNCHANGED <<initialized, interactionInProgress, msalAccounts,
                 activeAccount, mockAccount>>
  /\ UNCHANGED <<graphVars, formVars>>

LogoutStart(p) ==
  /\ authPc[p] = "logout_init"
  /\ initialized
  /\ IF interactionInProgress
     THEN /\ interactionInProgress' = FALSE
          /\ Finish(p, "InteractionConflict")
          /\ UNCHANGED <<msalAccounts, activeAccount, mockAccount>>
     ELSE IF getAccount # None
     THEN \* flag set, clearCache(), logoutRedirect started
          /\ interactionInProgress' = TRUE
          /\ msalAccounts' = <<>>
          /\ activeAccount' = None
          /\ Goto(p, "logout_redirect")
          /\ UNCHANGED mockAccount
     ELSE \* no account: only the persisted keys are removed
          /\ mockAccount' = None
          /\ Finish(p, "ok")
          /\ UNCHANGED <<interactionInProgress, msalAccounts, activeAccount>>
  /\ UNCHANGED initialized
  /\ UNCHANGED <<graphVars, formVars>>

LogoutRedirect(p) ==
  /\ authPc[p] = "logout_redirect"
  /\ \E ok \in BOOLEAN :
       IF ok
       THEN /\ interactionInProgress' = FALSE
            /\ mockAccount' = None
            /\ Finish(p, "ok")
       ELSE /\ Goto(p, "logout_popup")
            /\ UNCHANGED <<interactionInProgress, mockAccount>>
  /\ UNCHANGED <<initialized, msalAccounts, activeAccount>>
  /\ UNCHANGED <<graphVars, formVars>>

LogoutPopup(p) ==
  /\ authPc[p] = "logout_popup"
  /\ interactionInProgress' = FALSE
  /\ \E ok \in BOOLEAN :
       IF ok
       THEN /\ mockAccount' = None
            /\ Finish(p, "ok")
       ELSE \* throw popupError: the key removal below is skipped
            /\ Finish(p, "error")
            /\ UNCHANGED mockAccount
  /\ UNCHANGED <<initialized, msalAccounts, activeAccount>>
  /\ UNCHANGED <<graphVars, formVars>>

\* ---- getToken() ----
TokenCall(p) ==
  /\ authPc[p] = "idle"
  /\ Goto(p, "token_init")
  /\ UNCHANGED <<initialized, interactionInProgress, msalAccounts,
                 activeAccount, mockAccount>>
  /\ UNCHANGED <<graphVars, formVars>>

\* getToken going on to the silent acquisition without an account
TokenStartWithoutAccountCheck(p) ==
  /\ authPc[p] = "token_init"
  /\ initialized
  /\ activeAccount' = getAccountActive
  /\ Goto(p, "token_silent")
  /\ UNCHANGED <<initialized, interactionInProgress, msalAccounts, mockAccount>>
  /\ UNCHANGED <<graphVars, formVars>>

\* after ensureInitialized: getAccount(), then the silent acquisition starts
TokenStart(p) ==
  /\ authPc[p] = "token_init"
  /\ initialized
  /\ activeAccount' = getAccountActive
  /\ IF getAccount = None
     THEN \* throw; the outer catch clears the flag
          /\ interactionInProgress' = FALSE
          /\ Finish(p, "NoActiveSession")
     ELSE /\ Goto(p, "token_silent")
          /\ UNCHANGED interactionInProgress
  /\ UNCHANGED <<initialized, msalAccounts, mockAccount>>
  /\ UNCHANGED <<graphVars, formVars>>

SilentOutcomes == {"ok", "interaction_required", "other_error"}

TokenSilent(p) ==
  /\ authPc[p] = "token_silent"
  /\ \E o \in SilentOutcomes :
       CASE o = "ok" ->
              /\ Finish(p, "ok")
              /\ UNCHANGED interactionInProgress
         [] o = "other_error" ->
              /\ interactionInProgress' = FALSE
              /\ Finish(p, "error")
         [] o = "interaction_required" ->
              IF interactionInProgress
              THEN /\ interactionInProgress' = FALSE
                   /\ Finish(p, "InteractionConflict")
              ELSE /\ interactionInProgress' = TRUE
                   /\ Goto(p, "token_redirect")
  /\ UNCHANGED <<initialized, msalAccounts, activeAccount, mockAccount>>
  /\ UNCHANGED <<graphVars, formVars>>

\* acquireTokenRedirect settles: resolved, the method throws "Redirecting..."
\* inside the try, and the catch falls back to the popup just as on a rejection;
\* that the redirect was initiated is noted in the caller's result so far
TokenRedirect(p) ==
  /\ authPc[p] = "token_redirect"
  /\ \E ok \in BOOLEAN :
       /\ authPc' = [authPc EXCEPT ![p] = "token_popup"]
       /\ authRes' = [authRes EXCEPT ![p] = IF ok THEN "redirect" ELSE None]
  /\ UNCHANGED <<initialized, interactionInProgress, msalAccounts,
                 activeAccount, mockAccount>>
  /\ UNCHANGED <<graphVars, formVars>>

TokenPopup(p) ==
  /\ authPc[p] = "token_popup"
  /\ interactionInProgress' = FALSE
  /\ \E ok \in BOOLEAN : Finish(p, IF ok THEN "ok" ELSE "error")
  /\ UNCHANGED <<initialized, msalAccounts, activeAccount, mockAccount>>
  /\ UNCHANGED <<graphVars, formVars>>

\* ---- getAccount() ----
\* the synchronous call as the App makes it; "no_account" stands for null
GetAccountCall(p) ==
  /\ authPc[p] = "idle"
  /\ activeAccount' = getAccountActive
  /\ Finish(p, IF getAccount = None THEN "no_account" ELSE getAccount)
  /\ UNCHANGED <<initialized, interactionInProgress, msalAccounts, mockAccount>>
  /\ UNCHANGED <<graphVars, formVars>>

\* the caller has received the result and may call again
AuthReturn(p) ==
  /\ authPc[p] = "done"
  /\ authPc' = [authPc EXCEPT ![p] = "idle"]
  /\ authRes' = [authRes EXCEPT ![p] = None]
  /\ UNCHANGED <<initialized, interactionInProgress, msalAccounts,
                 activeAccount, mockAccount>>
  /\ UNCHANGED <<graphVars, formVars>>

(***************************************************************************)
(* GraphService: data                                                      *)
(***************************************************************************)
\* the fixed department list, in the order the code iterates it
Departments == <<"Animation", "eLearning", "ADNR", "XR Development", "Other">>

DepartmentSet == {Departments[i] : i \in 1..Len(Departments)}

SubmissionStatusLabel == "Submission Status"

\* getMockEmployees: the built-in roster names
mockEmployees(d) ==
  CASE d = "Animation" -> <<"John Smith", "Sarah Johnson", "Michael Brown", "Emily Davis">>
    [] d = "eLearning" -> <<"David Wilson", "Jennifer Taylor", "Robert Martinez", "Lisa Anderson">>
    [] d = "ADNR" -> <<"James Thomas", "Patricia White", "Charles Harris", "Jessica Lewis">>
    [] d = "XR Development" -> <<"Daniel Clark", "Nancy Walker", "Paul Hall", "Karen Young">>
    [] d = "Other" -> <<"Mark Allen", "Sandra King", "Kevin Wright", "Betty Scott">>

\* getMockEmployees with the roster of one department lost
getMockEmployeesMissingRoster(d) ==
  IF d = "XR Development" THEN <<>>
  ELSE [i \in 1..Len(mockEmployees(d)) |->
          [id |-> <<d, i - 1>>, name |-> mockEmployees(d)[i], department |-> d,
           status |-> None]]

\* getMockEmployees(department): ids are `${department}-${index}`, no status
getMockEmployees(d) ==
  [i \in 1..Len(mockEmployees(d)) |->
     [id |-> <<d, i - 1>>, name |-> mockEmployees(d)[i], department |-> d,
      status |-> None]]

\* the departments the workbook has a worksheet for
Worksheets == {Departments[i] : i \in 1..NumWorksheets}

\* column A of the department's worksheet below the header row, before any
\* submission: the workbook carries the same people as the built-in roster
WorkbookNames(d) == mockEmployees(d)

\* column A below the header row: the people, then one "Submission Status" row
\* per remote submission that got as far as writing the label
ColumnA(d) ==
  WorkbookNames(d) \o [i \in 1..sheet[d].statusRows |-> SubmissionStatusLabel]

\* usedRange.values.length
UsedRows(d) == 1 + Len(ColumnA(d))

\* types.ts: the attendance statuses
AttendanceStatuses == {"present", "late", "absent", "onsite", "leave", "sick"}

\* a cell of today's column that holds an attendance status where a time is
\* looked for: truthy, and an invalid date once parsed
StatusInCell == -2

\* a worksheet on which nothing has been written today
EmptySheet(d) ==
  [todayColumn |-> FALSE, statusRows |-> 0, lastCell |-> NoTime,
   cells |-> [i \in 1..Len(WorkbookNames(d)) |-> None]]

\* line 353: the value patched into an employee's cell
CellValue(employee) ==
  IF employee.status = None THEN "absent" ELSE employee.status

\* lines 336-341: the first row of column A (below the header) with this name
EmployeeRow(d, name) ==
  CHOOSE r \in 1..Len(ColumnA(d)) :
    /\ ColumnA(d)[r] = name
    /\ \A r2 \in 1..(r - 1) : ColumnA(d)[r2] # name

\* lines 348-354: the worksheet after the employee's cell of today's column has
\* been patched; a "Submission Status" row is a row like any other
PatchCell(sh, d, employee) ==
  LET r == EmployeeRow(d, employee.name)
  IN  IF r <= Len(WorkbookNames(d))
      THEN [sh EXCEPT !.cells[r] = CellValue(employee)]
      ELSE IF r = Len(ColumnA(d))
      THEN [sh EXCEPT !.lastCell = StatusInCell]
      ELSE sh

\* getDepartmentSubmissions, lines 214-231: today's marker on a worksheet
SheetSubmitted(d) ==
  /\ d \in Worksheets
  /\ sheet[d].todayColumn
  /\ sheet[d].statusRows > 0
  /\ sheet[d].lastCell # NoTime

\* the list the attendance form passes for department d: the first
\* MaxEmployees people of the roster, every status resolved
FormEmployees(d) ==
  [i \in 1..MaxEmployees |-> [getMockEmployees(d)[i] EXCEPT !.status = "absent"]]

\* Array.prototype.findIndex over the submissions list, 1-based; 0 is JS's -1
findIndex(list, d) ==
  IF \E i \in 1..Len(list) : list[i].department = d
  THEN CHOOSE i \in 1..Len(list) :
         /\ list[i].department = d
         /\ \A j \in 1..(i - 1) : list[j].department # d
  ELSE 0

\* submissions.every(s => s.submitted)
every(list) == \A i \in 1..Len(list) : list[i].submitted

\* submissions.filter(s => s.submitted).length
submittedCount(list) == Cardinality({i \in 1..Len(list) : list[i].submitted})

\* SubmissionTracker, lines 44-46: what the tracker derives from a fetched list
TrackerView(list) ==
  [allSubmitted |-> every(list),
   submittedCount |-> submittedCount(list),
   totalCount |-> Len(list)]

\* the stored list looked up under an earlier day's key when today's is absent
StoredSubmissionsAnyDay ==
  IF HasItem(localSubs) /\ Len(ValueOf(localSubs)) > 0 THEN localSubs
  ELSE earlier.subs

\* getDepartmentSubmissions, lines 174-189: the stored list when it is present
\* and a non-empty array, otherwise None
StoredSubmissions ==
  IF HasItem(localSubs) /\ Len(ValueOf(localSubs)) > 0 THEN localSubs ELSE NoItem

\* the update without the findIndex lookup: the department is always pushed
UpdateSubmissionsAlwaysPush(subs, d, t) ==
  Append(IF HasItem(subs) THEN ValueOf(subs) ELSE <<>>,
         [department |-> d, submitted |-> TRUE, submittedAt |-> t])

\* submitAttendance, lines 384-403: the day's list with department d marked
UpdateSubmissions(subs, d, t) ==
  LET list == IF HasItem(subs) THEN ValueOf(subs) ELSE <<>>
      departmentIndex == findIndex(list, d)
  IN  IF departmentIndex = 0
      THEN Append(list, [department |-> d, submitted |-> TRUE, submittedAt |-> t])
      ELSE [list EXCEPT ![departmentIndex] =
              [@ EXCEPT !.submitted = TRUE, !.submittedAt = t]]

\* the flags with the attendance keys never looked at
MockFlagsNoneSubmitted == [i \in 1..Len(Departments) |-> FALSE]

\* getMockDepartmentSubmissions: the flags synthesized from the attendance keys
MockFlags == [i \in 1..Len(Departments) |-> HasItem(localAtt[Departments[i]])]

\* getMockDepartmentSubmissions at time t: every list it can return
\* (submittedAt is t minus a random number of hours)
getMockDepartmentSubmissions(t) ==
  {[i \in 1..Len(Departments) |->
      [department |-> Departments[i], submitted |-> MockFlags[i],
       submittedAt |-> IF MockFlags[i] THEN ts[i] ELSE NoTime]] :
     ts \in [1..Len(Departments) -> 0..t]}

\* getAuthenticatedClient with the mock-user key not looked at
getAuthenticatedClientIgnoringMockUser ==
  {[token |-> TRUE, client |-> c] : c \in BOOLEAN}

\* getAuthenticatedClient, lines 11-36: with the mock-user key stored it throws
\* before authService.getToken() is called and null is returned; without the
\* key a token is asked for and the client exists when the token was obtained
getAuthenticatedClient ==
  IF mockUser
  THEN {[token |-> FALSE, client |-> FALSE]}
  ELSE {[token |-> TRUE, client |-> c] : c \in BOOLEAN}

\* getAuthenticatedClient: whether it can yield a client (never with a mock user)
ClientOutcomes == {o.client : o \in getAuthenticatedClient}

SaIdle == [pc |-> "idle", department |-> None, employees |-> <<>>,
           k |-> 0, stamp |-> NoTime, departmentIndex |-> 0, again |-> FALSE,
           summary |-> None, result |-> None,
           submissions |-> <<>>, message |-> NoItem]

\* submittedBefore: the departments whose submitAttendance had returned when the
\* call was made
GdIdle == [pc |-> "idle", i |-> 0, acc |-> <<>>, result |-> <<>>,
           submittedBefore |-> {}, source |-> None]

GeIdle == [pc |-> "idle", department |-> None, failed |-> FALSE, result |-> <<>>]

ClIdle == [pc |-> "idle", input |-> 0, columnIndex |-> 0, columnLetter |-> <<>>]

\* the form before a department's roster has been loaded; done: a submit of
\* this form has succeeded (onSubmitSuccess has been called)
FormIdle == [department |-> None, employees |-> <<>>, done |-> FALSE]

\* App right after its first render: checkAuthStatus is waiting; signedOut:
\* handleLogout has completed and no sign-in has been started since
AppMounted == [pc |-> "mount", isAuthenticated |-> FALSE, authenticating |-> TRUE,
               loginInProgress |-> FALSE, authError |-> None,
               email |-> "", password |-> "", signedOut |-> FALSE]

\* a second fetchSubmissions of the tracker, started while an earlier one is in
\* flight: where its getDepartmentSubmissions stands
SecondIdle == [pc |-> "idle", i |-> 0, acc |-> <<>>, result |-> <<>>]

\* SubmissionTracker right after its first render; reported: the departments
\* its calls have reported as submitted so far, reportedBefore: the same when
\* the call in flight was made
TrackerMounted == [submissions |-> <<>>, error |-> None, loading |-> TRUE,
                   refreshing |-> FALSE, reported |-> {}, reportedBefore |-> {},
                   second |-> SecondIdle]

\* no key of an earlier day is stored
NoEarlier == [subs |-> NoItem, att |-> [d \in DepartmentSet |-> NoItem]]

\* the components and the calendar at the start
InitUi ==
  /\ cl = ClIdle
  /\ form = FormIdle
  /\ app = AppMounted
  /\ tr = TrackerMounted
  /\ day = 0
  /\ earlier = NoEarlier

(***************************************************************************)
(* GraphService.submitAttendance                                           *)
(***************************************************************************)
\* the departments whose attendance is stored for today
SubmittedDepartments == {d \in DepartmentSet : HasItem(localAtt[d])}

\* departments for which a submitAttendance call has returned today: their
\* attendance is stored and no call for them is still running
Returned == {d \in SubmittedDepartments : sa.department # d}

\* a call that has settled hands its result to its caller in a microtask, which
\* runs before any other callback (a response, a timer, a click) is taken up
NoReturnPending ==
  /\ sa.pc # "done"
  /\ gd.pc \notin {"done", "failed"}
  /\ tr.second.pc # "done"

\* new Date(): some time not before the last one read, which it becomes
ReadClock(t) ==
  /\ t \in now..MaxNow
  /\ now' = t

\* lines 378-380 with the entry kept once it exists
MirrorAttendanceKeepFirst(att, d, employees) ==
  IF HasItem(att[d]) THEN att ELSE [att EXCEPT ![d] = Item(employees)]

\* lines 378-380: the employees passed in are stored under the department's key
MirrorAttendance(att, d, employees) == [att EXCEPT ![d] = Item(employees)]

\* the local part with the submissions list started afresh on every call
SubmitLocalFreshList ==
  \E t \in now..MaxNow :
    LET d == sa.department
        list == IF HasItem(localSubs) THEN ValueOf(localSubs) ELSE <<>>
        submissions == UpdateSubmissions(NoItem, d, t)
    IN  /\ ReadClock(t)
        /\ localAtt' = MirrorAttendance(localAtt, d, sa.employees)
        /\ localSubs' = Item(submissions)
        /\ summaryCalls' = summaryCalls + 1
        /\ sa' = [sa EXCEPT !.pc = "summary",
                            !.departmentIndex = findIndex(list, d),
                            !.again = HasItem(localAtt[d]),
                            !.submissions = submissions]

\* lines 378-417, run synchronously once the remote part has ended either way:
\* mirror locally, mark the department, call the summary when every entry is set
SubmitLocal ==
  \E t \in now..MaxNow :
    LET d == sa.department
        list == IF HasItem(localSubs) THEN ValueOf(localSubs) ELSE <<>>
        submissions == UpdateSubmissions(localSubs, d, t)
    IN  /\ ReadClock(t)
        /\ localAtt' = MirrorAttendance(localAtt, d, sa.employees)
        /\ localSubs' = Item(submissions)
        /\ IF every(submissions)
           THEN /\ summaryCalls' = summaryCalls + 1
                /\ sa' = [sa EXCEPT !.pc = "summary",
                                    !.departmentIndex = findIndex(list, d),
                                    !.again = HasItem(localAtt[d]),
                                    !.submissions = submissions]
           ELSE /\ sa' = [sa EXCEPT !.pc = "done", !.result = "true",
                                    !.departmentIndex = findIndex(list, d),
                                    !.again = HasItem(localAtt[d])]
                /\ UNCHANGED summaryCalls

\* the remote part goes on: nothing is stored locally yet
SubmitRemote(next) ==
  /\ sa' = next
  /\ UNCHANGED <<localSubs, localAtt, summaryCalls>>

\* the next employee at or after position k that has a row in column A, else 0
NextFound(d, emps, k) ==
  LET found == {j \in k..Len(emps) :
                  \E r \in 1..Len(ColumnA(d)) : ColumnA(d)[r] = emps[j].name}
  IN  IF found = {} THEN 0
      ELSE CHOOSE j \in found : \A j2 \in found : j <= j2

\* lines 332-355: patch the next employee that is found, else go on to the label
CellsOrLabel(k) ==
  LET j == NextFound(sa.department, sa.employees, k)
  IN  IF j = 0 THEN [sa EXCEPT !.pc = "label"]
      ELSE [sa EXCEPT !.pc = "cell", !.k = j]

SubmitCall(d) ==
  /\ sa.pc = "idle"
  /\ NoReturnPending
  /\ summaryCalls < MaxSummaryCalls
  /\ sheet[d].statusRows < MaxStatusRows
  /\ sa' = [SaIdle EXCEPT !.pc = "read", !.department = d,
                          !.employees = FormEmployees(d)]
  /\ UNCHANGED <<mockUser, localSubs, localAtt, sheet, now, gd, ge, summaryCalls>>
  /\ UNCHANGED <<authVars, formVars>>

\* an employee the worksheet has no row for (the roster has grown since the
\* workbook was set up)
UnlistedEmployee(d) ==
  [id |-> <<d, Len(mockEmployees(d))>>, name |-> "New Joiner", department |-> d,
   status |-> "present"]

\* submitAttendance(d, employees) with a list whose last employee has no row
SubmitCallUnlisted(d) ==
  /\ sa.pc = "idle"
  /\ NoReturnPending
  /\ summaryCalls < MaxSummaryCalls
  /\ sheet[d].statusRows < MaxStatusRows
  /\ sa' = [SaIdle EXCEPT !.pc = "read", !.department = d,
                          !.employees = Append(FormEmployees(d), UnlistedEmployee(d))]
  /\ UNCHANGED <<mockUser, localSubs, localAtt, sheet, now, gd, ge, summaryCalls>>
  /\ UNCHANGED <<authVars, formVars>>

\* the requests before the first write settled, and a header is written whether
\* or not the header row has today's date
SubmitUsedRangeAlwaysHeader ==
  /\ sa.pc = "read"
  /\ NoReturnPending
  /\ \E client \in ClientOutcomes, ok \in BOOLEAN :
       IF client /\ ok /\ sa.department \in Worksheets
       THEN /\ SubmitRemote([sa EXCEPT !.pc = "header"])
            /\ UNCHANGED now
       ELSE SubmitLocal
  /\ UNCHANGED <<mockUser, sheet, gd, ge>>
  /\ UNCHANGED <<authVars, formVars>>

\* getAuthenticatedClient, the worksheets request and the usedRange request have
\* settled (none of them writes anything): without a client, without a
\* worksheet for the department, or with a request rejected the remote part is
\* over; otherwise today's column is looked up in the header row
SubmitUsedRange ==
  /\ sa.pc = "read"
  /\ NoReturnPending
  /\ \E client \in ClientOutcomes, ok \in BOOLEAN :
       IF client /\ ok /\ sa.department \in Worksheets
       THEN /\ SubmitRemote(IF sheet[sa.department].todayColumn
                            THEN CellsOrLabel(1)
                            ELSE [sa EXCEPT !.pc = "header"])
            /\ UNCHANGED now
       ELSE SubmitLocal
  /\ UNCHANGED <<mockUser, sheet, gd, ge>>
  /\ UNCHANGED <<authVars, formVars>>

\* the patch of today's header cell settled
SubmitHeader ==
  /\ sa.pc = "header"
  /\ NoReturnPending
  /\ \E ok \in BOOLEAN :
       IF ok
       THEN /\ sheet' = [sheet EXCEPT ![sa.department].todayColumn = TRUE]
            /\ SubmitRemote(CellsOrLabel(1))
            /\ UNCHANGED now
       ELSE /\ SubmitLocal
            /\ UNCHANGED sheet
  /\ UNCHANGED <<mockUser, gd, ge>>
  /\ UNCHANGED <<authVars, formVars>>

\* the patch of one employee's status cell settled
SubmitCell ==
  /\ sa.pc = "cell"
  /\ NoReturnPending
  /\ \E ok \in BOOLEAN :
       IF ok
       THEN /\ sheet' = [sheet EXCEPT ![sa.department] =
                          PatchCell(@, sa.department, sa.employees[sa.k])]
            /\ SubmitRemote(CellsOrLabel(sa.k + 1))
            /\ UNCHANGED now
       ELSE /\ SubmitLocal
            /\ UNCHANGED sheet
  /\ UNCHANGED <<mockUser, gd, ge>>
  /\ UNCHANGED <<authVars, formVars>>

\* the patch of "Submission Status" into column A of the row below the used
\* range settled: that row is now the last row, its cell for today empty; the
\* timestamp to write next is read from the clock
SubmitLabel ==
  /\ sa.pc = "label"
  /\ NoReturnPending
  /\ \E ok \in BOOLEAN :
       IF ok
       THEN /\ sheet' = [sheet EXCEPT ![sa.department].statusRows = @ + 1,
                                      ![sa.department].lastCell = NoTime]
            /\ \E t \in now..MaxNow :
                 /\ ReadClock(t)
                 /\ SubmitRemote([sa EXCEPT !.pc = "stamp", !.stamp = t])
       ELSE /\ SubmitLocal
            /\ UNCHANGED sheet
  /\ UNCHANGED <<mockUser, gd, ge>>
  /\ UNCHANGED <<authVars, formVars>>

\* the patch of the timestamp into today's column of that row settled
SubmitStamp ==
  /\ sa.pc = "stamp"
  /\ NoReturnPending
  /\ \E ok \in BOOLEAN :
       /\ sheet' = IF ok THEN [sheet EXCEPT ![sa.department].lastCell = sa.stamp]
                   ELSE sheet
       /\ SubmitLocal
  /\ UNCHANGED <<mockUser, gd, ge>>
  /\ UNCHANGED <<authVars, formVars>>

\* how an attempt to post the summary can end: posted, or no client (no token,
\* mock user), or the team or the channel not found, or the post rejected
SummaryOutcomes ==
  IF mockUser THEN {"no_client"}
  ELSE {"sent", "no_client", "team_not_found", "channel_not_found",
        "post_rejected"}

\* sendAttendanceSummaryToTeams letting a rejected post through to its caller
sendAttendanceSummaryToTeamsRethrowsPost(outcome) ==
  IF outcome = "post_rejected" THEN "rejected" ELSE "resolved"

\* sendAttendanceSummaryToTeams, lines 429-497: how its promise settles; the
\* inner catch logs whatever was thrown
sendAttendanceSummaryToTeams(outcome) == "resolved"

\* lines 437-452: the stored attendance lists of the submitted departments of
\* the list passed in, one after the other
RECURSIVE allEmployees(_, _)
allEmployees(departmentSubmissions, att) ==
  IF departmentSubmissions = <<>> THEN <<>>
  ELSE LET submission == Head(departmentSubmissions)
           storedData == att[submission.department]
       IN  (IF submission.submitted /\ HasItem(storedData)
            THEN ValueOf(storedData) ELSE <<>>)
             \o allEmployees(Tail(departmentSubmissions), att)

\* lines 470-480: the status groups a department's section of the message has
SummaryGroups == {"present", "late", "absent", "leave", "sick"}

\* lines 457-481: per department and status group, the names listed
SummaryMessage(departmentSubmissions, att) ==
  [department \in DepartmentSet |->
     [status \in SummaryGroups |->
        LET inGroup(e) == e.department = department /\ e.status = status
            listed == SelectSeq(allEmployees(departmentSubmissions, att), inGroup)
        IN  [i \in 1..Len(listed) |-> listed[i].name]]]

\* lines 411-421: sendAttendanceSummaryToTeams settled; submitAttendance returns
\* true, or rethrows from its outer catch what the awaited call threw; message:
\* what was composed for the post, when the team and the channel were found
SubmitSummary ==
  /\ sa.pc = "summary"
  /\ NoReturnPending
  /\ \E outcome \in SummaryOutcomes :
       sa' = [sa EXCEPT !.pc = "done", !.summary = outcome,
                        !.message =
                          IF outcome \in {"sent", "post_rejected"}
                          THEN Item(SummaryMessage(sa.submissions, localAtt))
                          ELSE NoItem,
                        !.result =
                          IF sendAttendanceSummaryToTeams(outcome) = "resolved"
                          THEN "true" ELSE "error"]
  /\ UNCHANGED <<mockUser, localSubs, localAtt, sheet, now, gd, ge, summaryCalls>>
  /\ UNCHANGED <<authVars, formVars>>

\* the caller has the outcome: on true the form that submitted reports success
\* (toast, onSubmitSuccess) and stays mounted
SubmitReturn ==
  /\ sa.pc = "done"
  /\ sa' = SaIdle
  /\ form' = IF sa.result = "true" /\ form.department = sa.department
             THEN [form EXCEPT !.done = TRUE]
             ELSE form
  /\ UNCHANGED <<mockUser, localSubs, localAtt, sheet, now, gd, ge, summaryCalls>>
  /\ UNCHANGED <<authVars, cl, uiVars>>

(***************************************************************************)
(* GraphService.getDepartmentSubmissions                                   *)
(***************************************************************************)
\* lines 248-253: any failure of the remote read falls back to the mock list
GdsFallback ==
  \E t \in now..MaxNow :
    /\ ReadClock(t)
    /\ \E l \in getMockDepartmentSubmissions(t) :
         gd' = [GdIdle EXCEPT !.pc = "done", !.result = l, !.source = "mock",
                              !.submittedBefore = gd.submittedBefore]

\* the call: the stored list if there is one, else the remote read starts
GdsStart ==
  IF HasItem(StoredSubmissions)
  THEN gd' = [GdIdle EXCEPT !.pc = "done", !.source = "local",
                           !.result = ValueOf(StoredSubmissions),
                           !.submittedBefore = Returned]
  ELSE gd' = [GdIdle EXCEPT !.pc = "client", !.submittedBefore = Returned]

\* a caller other than the tracker makes the call
GdsCall ==
  /\ gd.pc = "idle"
  /\ NoReturnPending
  /\ GdsStart
  /\ UNCHANGED <<mockUser, localSubs, localAtt, sheet, now, sa, ge, summaryCalls>>
  /\ UNCHANGED <<authVars, formVars>>

\* getAuthenticatedClient settled; without a client the first request throws
GdsClient ==
  /\ gd.pc = "client"
  /\ NoReturnPending
  /\ \E client \in ClientOutcomes :
       IF client
       THEN /\ gd' = [gd EXCEPT !.pc = "read", !.i = 1]
            /\ UNCHANGED now
       ELSE GdsFallback
  /\ UNCHANGED <<mockUser, localSubs, localAtt, sheet, sa, ge, summaryCalls>>
  /\ UNCHANGED <<authVars, formVars>>

\* lines 203-237: the entry pushed for a department once its worksheet is read
SheetEntry(d) ==
  [department |-> d, submitted |-> SheetSubmitted(d),
   submittedAt |-> IF SheetSubmitted(d) THEN sheet[d].lastCell ELSE NoTime]

\* the worksheet of department i has been read; after the last one the list is
\* stored under today's key and handed back
GdsRead ==
  /\ gd.pc = "read"
  /\ NoReturnPending
  /\ \E ok \in BOOLEAN :
       IF ok
       THEN LET acc == Append(gd.acc, SheetEntry(Departments[gd.i]))
            IN  /\ IF gd.i < Len(Departments)
                   THEN /\ gd' = [gd EXCEPT !.i = @ + 1, !.acc = acc]
                        /\ UNCHANGED localSubs
                   ELSE /\ localSubs' = Item(acc)
                        /\ gd' = [GdIdle EXCEPT !.pc = "done", !.result = acc,
                                   !.source = "remote",
                                   !.submittedBefore = gd.submittedBefore]
                /\ UNCHANGED now
       ELSE /\ GdsFallback
            /\ UNCHANGED localSubs
  /\ UNCHANGED <<mockUser, localAtt, sheet, sa, ge, summaryCalls>>
  /\ UNCHANGED <<authVars, formVars>>

\* the caller has taken the list
GdsReturn ==
  /\ gd.pc = "done"
  /\ gd' = GdIdle
  /\ UNCHANGED <<mockUser, localSubs, localAtt, sheet, now, sa, ge, summaryCalls>>
  /\ UNCHANGED <<authVars, formVars>>

(***************************************************************************)
(* GraphService.getEmployeesByDepartment                                   *)
(***************************************************************************)
\* lines 120-138: one employee per non-empty name in column A below the header,
\* with the row index in the id and no status
SheetEmployees(d) ==
  [i \in 1..Len(ColumnA(d)) |->
     [id |-> <<d, i>>, name |-> ColumnA(d)[i], department |-> d, status |-> None]]

GetEmployeesCall(d) ==
  /\ ge.pc = "idle"
  /\ ge' = [GeIdle EXCEPT !.pc = "client", !.department = d]
  /\ UNCHANGED <<mockUser, localSubs, localAtt, sheet, now, sa, gd, summaryCalls>>
  /\ UNCHANGED <<authVars, formVars>>

\* lines 143-148: whatever went wrong, the built-in roster is returned
GetEmployeesFallback ==
  ge' = [ge EXCEPT !.pc = "done", !.failed = TRUE,
                   !.result = getMockEmployees(ge.department)]

\* getAuthenticatedClient settled; without a client the first request throws
GetEmployeesClient ==
  /\ ge.pc = "client"
  /\ \E client \in ClientOutcomes :
       IF client
       THEN ge' = [ge EXCEPT !.pc = "worksheets"]
       ELSE GetEmployeesFallback
  /\ UNCHANGED <<mockUser, localSubs, localAtt, sheet, now, sa, gd, summaryCalls>>
  /\ UNCHANGED <<authVars, formVars>>

\* the worksheets request settled (rejected, or the department has no worksheet)
GetEmployeesWorksheets ==
  /\ ge.pc = "worksheets"
  /\ \E ok \in BOOLEAN :
       IF ok /\ ge.department \in Worksheets
       THEN ge' = [ge EXCEPT !.pc = "usedRange"]
       ELSE GetEmployeesFallback
  /\ UNCHANGED <<mockUser, localSubs, localAtt, sheet, now, sa, gd, summaryCalls>>
  /\ UNCHANGED <<authVars, formVars>>

\* the usedRange request settled
GetEmployeesUsedRange ==
  /\ ge.pc = "usedRange"
  /\ \E ok \in BOOLEAN :
       IF ok
       THEN ge' = [ge EXCEPT !.pc = "done",
                             !.result = SheetEmployees(ge.department)]
       ELSE GetEmployeesFallback
  /\ UNCHANGED <<mockUser, localSubs, localAtt, sheet, now, sa, gd, summaryCalls>>
  /\ UNCHANGED <<authVars, formVars>>

\* the form has taken the roster (setEmployees) and keeps it until the next fetch
GetEmployeesReturn ==
  /\ ge.pc = "done"
  /\ ge' = [ge EXCEPT !.pc = "idle"]
  /\ form' = [form EXCEPT !.department = ge.department, !.employees = ge.result]
  /\ UNCHANGED <<mockUser, localSubs, localAtt, sheet, now, sa, gd, summaryCalls>>
  /\ UNCHANGED <<authVars, cl, uiVars>>

(***************************************************************************)
(* AttendanceForm                                                          *)
(***************************************************************************)
\* the form is mounted for department d (again) and fetches its roster
FormMount(d) ==
  /\ ge.pc = "idle"
  /\ form.department \in {None, d}
  /\ form' = [department |-> d, employees |-> <<>>, done |-> FALSE]
  /\ ge' = [GeIdle EXCEPT !.pc = "client", !.department = d]
  /\ UNCHANGED <<mockUser, localSubs, localAtt, sheet, now, sa, gd, summaryCalls>>
  /\ UNCHANGED <<authVars, cl, uiVars>>

\* handleStatusChange giving the status to every employee of the list
handleStatusChangeEveryone(i, status) ==
  /\ i <= Len(form.employees)
  /\ form' = [form EXCEPT !.employees =
                [j \in 1..Len(form.employees) |->
                   [form.employees[j] EXCEPT !.status = status]]]
  /\ UNCHANGED <<authVars, graphVars, cl, uiVars>>

\* handleStatusChange(employeeId, status), for one of the first MaxEmployees rows
handleStatusChange(i, status) ==
  /\ i <= Len(form.employees)
  /\ form' = [form EXCEPT !.employees =
                [j \in 1..Len(form.employees) |->
                   IF form.employees[j].id = form.employees[i].id
                   THEN [form.employees[j] EXCEPT !.status = status]
                   ELSE form.employees[j]]]
  /\ UNCHANGED <<authVars, graphVars, cl, uiVars>>

\* handleSubmit passing the employees on as they are
employeesWithStatusAsEntered(employees) == employees

\* handleSubmit, lines 127-131: an unset status becomes 'absent'
employeesWithStatus(employees) ==
  [i \in 1..Len(employees) |->
     [employees[i] EXCEPT !.status = IF @ = None THEN "absent" ELSE @]]

\* handleSubmit: the button is enabled (not submitting, some employees) and
\* submitAttendance(department, employeesWithStatus) is called
handleSubmit ==
  /\ sa.pc = "idle"
  /\ NoReturnPending
  /\ Len(form.employees) > 0
  /\ summaryCalls < MaxSummaryCalls
  /\ sheet[form.department].statusRows < MaxStatusRows
  /\ sa' = [SaIdle EXCEPT !.pc = "read", !.department = form.department,
                          !.employees = employeesWithStatus(form.employees)]
  /\ UNCHANGED <<mockUser, localSubs, localAtt, sheet, now, gd, ge, summaryCalls>>
  /\ UNCHANGED <<authVars, formVars>>

\* handleSubmit on a day on which the department's worksheet already has the
\* label rows of its earlier submissions
handleSubmitAgain ==
  /\ sa.pc = "idle"
  /\ NoReturnPending
  /\ Len(form.employees) > 0
  /\ summaryCalls < MaxSummaryCalls
  /\ sheet[form.department].statusRows = MaxStatusRows
  /\ sa' = [SaIdle EXCEPT !.pc = "read", !.department = form.department,
                          !.employees = employeesWithStatus(form.employees)]
  /\ UNCHANGED <<mockUser, localSubs, localAtt, sheet, now, gd, ge, summaryCalls>>
  /\ UNCHANGED <<authVars, formVars>>

(***************************************************************************)
(* GraphService.getExcelColumnLetter                                       *)
(***************************************************************************)
\* the characters String.fromCharCode yields for the codes 65..90
Letters ==
  <<"A", "B", "C", "D", "E", "F", "G", "H", "I", "J", "K", "L", "M",
    "N", "O", "P", "Q", "R", "S", "T", "U", "V", "W", "X", "Y", "Z">>

\* the character with the letters shifted by one place
ColumnCharShifted(columnIndex) == Letters[((columnIndex + 1) % 26) + 1]

\* line 505: String.fromCharCode(65 + (columnIndex % 26))
ColumnChar(columnIndex) == Letters[(columnIndex % 26) + 1]

\* line 506: Math.floor(columnIndex / 26) - 1
NextColumnIndex(columnIndex) == (columnIndex \div 26) - 1

\* getExcelColumnLetter(n) is called: columnLetter = ''
ColumnLetterCall(n) ==
  /\ cl.pc = "idle"
  /\ cl' = [pc |-> "loop", input |-> n, columnIndex |-> n, columnLetter |-> <<>>]
  /\ UNCHANGED <<authVars, graphVars, form, uiVars>>

\* one test of the while condition, and one pass through the body when it holds
ColumnLetterLoop ==
  /\ cl.pc = "loop"
  /\ IF cl.columnIndex >= 0
     THEN cl' = [cl EXCEPT !.columnLetter = <<ColumnChar(cl.columnIndex)>> \o @,
                           !.columnIndex = NextColumnIndex(cl.columnIndex)]
     ELSE cl' = [cl EXCEPT !.pc = "done"]
  /\ UNCHANGED <<authVars, graphVars, form, uiVars>>

\* return columnLetter
ColumnLetterReturn ==
  /\ cl.pc = "done"
  /\ cl' = ClIdle
  /\ UNCHANGED <<authVars, graphVars, form, uiVars>>

(***************************************************************************)
(* Specifications                                                          *)
(***************************************************************************)
\* the gateway at the start of a day: nothing stored, nothing in flight
InitGraphIdle ==
  /\ mockUser = FALSE
  /\ localSubs = NoItem
  /\ localAtt = [d \in DepartmentSet |-> NoItem]
  /\ sheet = [d \in DepartmentSet |->
                EmptySheet(d)]
  /\ now = 0
  /\ sa = SaIdle
  /\ gd = GdIdle
  /\ ge = GeIdle
  /\ summaryCalls = 0
  /\ InitUi

\* the identity session signed in and quiescent
InitAuthIdle ==
  /\ initialized = TRUE
  /\ interactionInProgress = FALSE
  /\ msalAccounts = <<MsalAccount>>
  /\ activeAccount = MsalAccount
  /\ mockAccount = None
  /\ authPc = [p \in AuthCallers |-> "idle"]
  /\ authRes = [p \in AuthCallers |-> None]

Init ==
  /\ InitAuthIdle
  /\ mockUser \in BOOLEAN
  /\ localSubs = NoItem
  /\ localAtt = [d \in DepartmentSet |-> NoItem]
  /\ sheet = [d \in DepartmentSet |->
                EmptySheet(d)]
  /\ now = 0
  /\ sa = SaIdle
  /\ gd = GdIdle
  /\ ge = GeIdle
  /\ summaryCalls = 0
  /\ InitUi

Next ==
  \/ \E d \in DepartmentSet : SubmitCall(d)
  \/ SubmitUsedRange
  \/ SubmitHeader
  \/ SubmitCell
  \/ SubmitLabel
  \/ SubmitStamp
  \/ SubmitSummary
  \/ SubmitReturn
  \/ GdsCall
  \/ GdsClient
  \/ GdsRead
  \/ GdsReturn

Spec == Init /\ [][Next]_vars

\* the worksheet states a day's submissions leave behind
SheetStates(d) ==
  {EmptySheet(d)}
    \cup {[EmptySheet(d) EXCEPT !.todayColumn = TRUE, !.statusRows = n] :
            n \in 0..MaxStatusRows}
    \cup {[EmptySheet(d) EXCEPT !.todayColumn = TRUE, !.statusRows = n,
                                !.lastCell = 0] :
            n \in 1..MaxStatusRows}

\* every worksheet in one of the states a day's submissions leave behind
DaySheets ==
  {f \in [DepartmentSet -> UNION {SheetStates(d) : d \in DepartmentSet}] :
     \A d \in DepartmentSet :
       /\ f[d] \in SheetStates(d)
       /\ d \notin Worksheets => f[d] = EmptySheet(d)}

\* the roster is read at any point of the day, with or without a mock user
InitRoster ==
  /\ InitAuthIdle
  /\ mockUser \in BOOLEAN
  /\ localSubs = NoItem
  /\ localAtt = [d \in DepartmentSet |-> NoItem]
  /\ sheet \in DaySheets
  /\ now = 0
  /\ sa = SaIdle
  /\ gd = GdIdle
  /\ ge = GeIdle
  /\ summaryCalls = 0
  /\ InitUi

NextRoster ==
  \/ \E d \in DepartmentSet : GetEmployeesCall(d)
  \/ GetEmployeesClient
  \/ GetEmployeesWorksheets
  \/ GetEmployeesUsedRange
  \/ GetEmployeesReturn

SpecRoster == InitRoster /\ [][NextRoster]_vars

(***************************************************************************)
(* App                                                                     *)
(***************************************************************************)
\* the caller App's handlers are, and the caller the gateway's getToken is
AppCaller == 1
GatewayCaller == 2

\* what the email and password fields can hold
Emails == {"", "ann@example.com"}
Passwords == {"", "secret"}

\* nothing of the gateway, the form, the tracker or the calendar changes
AppFrame ==
  UNCHANGED <<localSubs, localAtt, sheet, now, sa, gd, ge, summaryCalls,
              cl, form, tr, day, earlier>>

\* lines 224-237: the effect run when authenticating has changed to false
\* restores a stored mock user
RestoredFromMockUser(isAuthenticated) == isAuthenticated \/ mockUser

\* the login page is on screen
LoginPageShown ==
  app.pc = "idle" /\ ~app.authenticating /\ ~app.isAuthenticated

\* the page is loaded anew: a new AuthService, App mounted again; what
\* localStorage holds stays
Reload ==
  /\ app.pc # "mount"
  /\ app' = [AppMounted EXCEPT !.signedOut = app.signedOut]
  /\ initialized' = FALSE
  /\ interactionInProgress' = FALSE
  /\ authPc' = [p \in AuthCallers |-> "idle"]
  /\ authRes' = [p \in AuthCallers |-> None]
  /\ UNCHANGED <<msalAccounts, activeAccount, mockAccount, mockUser>>
  /\ AppFrame

\* checkAuthStatus after its one-second wait: getAccount(), then getToken()
CheckAuthStatus ==
  /\ app.pc = "mount"
  /\ activeAccount' = getAccountActive
  /\ IF getAccount # None
     THEN /\ Goto(AppCaller, "token_init")
          /\ app' = [app EXCEPT !.pc = "check_token"]
     ELSE /\ app' = [app EXCEPT !.pc = "idle", !.authenticating = FALSE,
                                !.isAuthenticated = RestoredFromMockUser(FALSE)]
          /\ UNCHANGED <<authPc, authRes>>
  /\ UNCHANGED <<initialized, interactionInProgress, msalAccounts, mockAccount,
                 mockUser>>
  /\ AppFrame

\* lines 39-63: getToken settled
CheckAuthDone ==
  /\ app.pc = "check_token"
  /\ authPc[AppCaller] = "done"
  /\ LET ok == authRes[AppCaller] = "ok"
     IN  app' = [app EXCEPT !.pc = "idle", !.authenticating = FALSE,
                            !.isAuthenticated = RestoredFromMockUser(ok),
                            !.authError = IF ok THEN None ELSE "expired"]
  /\ authPc' = [authPc EXCEPT ![AppCaller] = "idle"]
  /\ authRes' = [authRes EXCEPT ![AppCaller] = None]
  /\ UNCHANGED <<initialized, interactionInProgress, msalAccounts, activeAccount,
                 mockAccount, mockUser>>
  /\ AppFrame

\* onChange of the email and the password field
SetEmail(e) ==
  /\ LoginPageShown
  /\ app.email # e
  /\ app' = [app EXCEPT !.email = e]
  /\ UNCHANGED <<authVars, mockUser>>
  /\ AppFrame

SetPassword(pw) ==
  /\ LoginPageShown
  /\ app.password # pw
  /\ app' = [app EXCEPT !.password = pw]
  /\ UNCHANGED <<authVars, mockUser>>
  /\ AppFrame

\* handleLogin up to its await of authService.login()
HandleLogin ==
  /\ LoginPageShown
  /\ app' = [app EXCEPT !.pc = "login", !.loginInProgress = TRUE,
                         !.authenticating = TRUE, !.authError = None,
                         !.signedOut = FALSE]
  /\ Goto(AppCaller, "login_init")
  /\ UNCHANGED <<initialized, interactionInProgress, msalAccounts, activeAccount,
                 mockAccount, mockUser>>
  /\ AppFrame

\* lines 85-119: login() settled; getAccount() decides
HandleLoginDone ==
  /\ app.pc = "login"
  /\ authPc[AppCaller] = "done"
  /\ LET resolved == authRes[AppCaller] \in {"ok", "redirect"}
         found == resolved /\ getAccount # None
     IN  /\ app' = [app EXCEPT !.pc = "idle", !.loginInProgress = FALSE,
                               !.authenticating = FALSE,
                               !.isAuthenticated = RestoredFromMockUser(found),
                               !.authError = IF found THEN None ELSE "login"]
         /\ activeAccount' = IF resolved THEN getAccountActive ELSE activeAccount
  /\ authPc' = [authPc EXCEPT ![AppCaller] = "idle"]
  /\ authRes' = [authRes EXCEPT ![AppCaller] = None]
  /\ UNCHANGED <<initialized, interactionInProgress, msalAccounts, mockAccount,
                 mockUser>>
  /\ AppFrame

\* handleDirectLogin with the validation left out
HandleDirectLoginUnvalidated ==
  /\ LoginPageShown
  /\ app' = [app EXCEPT !.isAuthenticated = TRUE, !.authError = None,
                         !.authenticating = FALSE, !.loginInProgress = FALSE,
                         !.signedOut = FALSE]
  /\ mockUser' = TRUE
  /\ UNCHANGED authVars
  /\ AppFrame

\* handleDirectLogin: the form is submitted with the fields as they are
HandleDirectLogin ==
  /\ LoginPageShown
  /\ IF app.email = "" \/ app.password = ""
     THEN /\ app' = [app EXCEPT !.authError = "validation",
                                !.authenticating = FALSE,
                                !.loginInProgress = FALSE]
          /\ UNCHANGED mockUser
     ELSE /\ app' = [app EXCEPT !.isAuthenticated = TRUE, !.authError = None,
                                !.authenticating = FALSE,
                                !.loginInProgress = FALSE,
                                !.signedOut = FALSE]
          /\ mockUser' = TRUE
  /\ UNCHANGED authVars
  /\ AppFrame

\* handleLogout up to its await of authService.logout()
HandleLogout ==
  /\ app.pc = "idle"
  /\ ~app.authenticating
  /\ app.isAuthenticated
  /\ authPc[AppCaller] = "idle"
  /\ app' = [app EXCEPT !.pc = "logout", !.authenticating = TRUE]
  /\ mockUser' = FALSE
  /\ Goto(AppCaller, "logout_init")
  /\ UNCHANGED <<initialized, interactionInProgress, msalAccounts, activeAccount,
                 mockAccount>>
  /\ AppFrame

\* logout() settled and the whole of localStorage is cleared
HandleLogoutDoneClearsStorage ==
  /\ app.pc = "logout"
  /\ authPc[AppCaller] = "done"
  /\ app' = [app EXCEPT !.pc = "idle", !.authenticating = FALSE,
                         !.isAuthenticated = FALSE, !.signedOut = TRUE]
  /\ authPc' = [authPc EXCEPT ![AppCaller] = "idle"]
  /\ authRes' = [authRes EXCEPT ![AppCaller] = None]
  /\ localSubs' = NoItem
  /\ localAtt' = [d \in DepartmentSet |-> NoItem]
  /\ earlier' = NoEarlier
  /\ mockUser' = FALSE
  /\ UNCHANGED <<initialized, interactionInProgress, msalAccounts, activeAccount,
                 mockAccount>>
  /\ UNCHANGED <<sheet, now, sa, gd, ge, summaryCalls, cl, form, tr, day>>

\* lines 179-198: logout() settled either way; the four removeItem calls name
\* keys the provider's cache does not use
HandleLogoutDone ==
  /\ app.pc = "logout"
  /\ authPc[AppCaller] = "done"
  /\ app' = [app EXCEPT !.pc = "idle", !.authenticating = FALSE,
                         !.isAuthenticated = RestoredFromMockUser(FALSE),
                         !.signedOut = TRUE]
  /\ authPc' = [authPc EXCEPT ![AppCaller] = "idle"]
  /\ authRes' = [authRes EXCEPT ![AppCaller] = None]
  /\ UNCHANGED <<initialized, interactionInProgress, msalAccounts, activeAccount,
                 mockAccount, mockUser>>
  /\ AppFrame

\* getAuthenticatedClient of a mounted component asks for a token (no mock user)
GatewayTokenCall ==
  /\ app.isAuthenticated
  /\ ~app.authenticating
  /\ ~mockUser
  /\ authPc[GatewayCaller] = "idle"
  /\ Goto(GatewayCaller, "token_init")
  /\ UNCHANGED <<initialized, interactionInProgress, msalAccounts, activeAccount,
                 mockAccount>>
  /\ UNCHANGED <<graphVars, formVars>>

\* the gateway has its token or its error
GatewayTokenReturn ==
  /\ authPc[GatewayCaller] = "done"
  /\ authPc' = [authPc EXCEPT ![GatewayCaller] = "idle"]
  /\ authRes' = [authRes EXCEPT ![GatewayCaller] = None]
  /\ UNCHANGED <<initialized, interactionInProgress, msalAccounts, activeAccount,
                 mockAccount>>
  /\ UNCHANGED <<graphVars, formVars>>

\* the page is opened with or without a cached account and a stored mock user
InitApp ==
  /\ initialized = FALSE
  /\ interactionInProgress = FALSE
  /\ msalAccounts \in {<<>>, <<MsalAccount>>}
  /\ activeAccount = None
  /\ mockAccount = None
  /\ authPc = [p \in AuthCallers |-> "idle"]
  /\ authRes = [p \in AuthCallers |-> None]
  /\ mockUser \in BOOLEAN
  /\ localSubs = NoItem
  /\ localAtt = [d \in DepartmentSet |-> NoItem]
  /\ sheet = [d \in DepartmentSet |-> EmptySheet(d)]
  /\ now = 0
  /\ sa = SaIdle
  /\ gd = GdIdle
  /\ ge = GeIdle
  /\ summaryCalls = 0
  /\ InitUi

NextApp ==
  \/ Initialize
  \/ Reload
  \/ CheckAuthStatus
  \/ CheckAuthDone
  \/ \E e \in Emails : SetEmail(e)
  \/ \E pw \in Passwords : SetPassword(pw)
  \/ HandleLogin
  \/ HandleLoginDone
  \/ HandleDirectLogin
  \/ HandleLogout
  \/ HandleLogoutDone
  \/ GatewayTokenCall
  \/ GatewayTokenReturn
  \/ \E p \in AuthCallers : LoginStart(p)
  \/ \E p \in AuthCallers : LoginSilent(p)
  \/ \E p \in AuthCallers : LoginRedirect(p)
  \/ \E p \in AuthCallers : LoginPopup(p)
  \/ \E p \in AuthCallers : LoginToken(p)
  \/ \E p \in AuthCallers : LogoutStart(p)
  \/ \E p \in AuthCallers : LogoutRedirect(p)
  \/ \E p \in AuthCallers : LogoutPopup(p)
  \/ \E p \in AuthCallers : TokenStart(p)
  \/ \E p \in AuthCallers : TokenSilent(p)
  \/ \E p \in AuthCallers : TokenRedirect(p)
  \/ \E p \in AuthCallers : TokenPopup(p)

SpecApp == InitApp /\ [][NextApp]_vars

(***************************************************************************)
(* SubmissionTracker: the list on display, its error banner and the polls  *)
(***************************************************************************)
\* the departments a submissions list reports as submitted
SubmittedIn(list) == {list[i].department : i \in {j \in 1..Len(list) : list[j].submitted}}

TrackerError == "Failed to load submission status"

\* fetchSubmissions up to its await, with no call of the tracker in flight:
\* the banner is cleared, the spinner is set unless the closure saw loading,
\* and getDepartmentSubmissions starts.  It rejects only when localStorage
\* throws in the read of line 174 and again in the fallback's read of line 268.
TrackerFetch ==
  /\ gd.pc = "idle"
  /\ NoReturnPending
  /\ \E loadingSeen \in {tr.loading, TRUE} :
       tr' = [tr EXCEPT !.error = None,
                        !.refreshing = IF loadingSeen THEN @ ELSE TRUE,
                        !.reportedBefore = tr.reported]
  /\ \E storage \in BOOLEAN :
       IF storage THEN GdsStart ELSE gd' = [GdIdle EXCEPT !.pc = "failed"]
  /\ UNCHANGED <<mockUser, localSubs, localAtt, sheet, now, sa, ge, summaryCalls>>
  /\ UNCHANGED <<authVars, cl, form, app, day, earlier>>

\* the awaited call resolved: the list replaces the one on display
TrackerResolve ==
  /\ gd.pc = "done"
  /\ tr' = [tr EXCEPT !.submissions = gd.result, !.loading = FALSE,
                      !.refreshing = FALSE,
                      !.reported = @ \cup SubmittedIn(gd.result)]
  /\ gd' = GdIdle
  /\ UNCHANGED <<mockUser, localSubs, localAtt, sheet, now, sa, ge, summaryCalls>>
  /\ UNCHANGED <<authVars, cl, form, app, day, earlier>>

\* the catch block: the banner is set and clears the list
TrackerRejectClearsList ==
  /\ gd.pc = "failed"
  /\ tr' = [tr EXCEPT !.submissions = <<>>, !.error = TrackerError,
                      !.loading = FALSE, !.refreshing = FALSE]
  /\ gd' = GdIdle
  /\ UNCHANGED <<mockUser, localSubs, localAtt, sheet, now, sa, ge, summaryCalls>>
  /\ UNCHANGED <<authVars, cl, form, app, day, earlier>>

\* the awaited call rejected: the catch block sets the banner, the list on
\* display is not touched
TrackerReject ==
  /\ gd.pc = "failed"
  /\ tr' = [tr EXCEPT !.error = TrackerError, !.loading = FALSE,
                      !.refreshing = FALSE]
  /\ gd' = GdIdle
  /\ UNCHANGED <<mockUser, localSubs, localAtt, sheet, now, sa, ge, summaryCalls>>
  /\ UNCHANGED <<authVars, cl, form, app, day, earlier>>

\* the timer or a click runs fetchSubmissions while an earlier call of the
\* tracker is still reading the worksheets, and today's list is stored by now:
\* the second call returns the stored list and is displayed in the microtasks
\* that follow, before the earlier call is taken up again
TrackerFetchOverlapping ==
  /\ gd.pc \in {"client", "read"}
  /\ NoReturnPending
  /\ HasItem(StoredSubmissions)
  /\ tr' = [tr EXCEPT !.submissions = ValueOf(StoredSubmissions),
                      !.error = None, !.loading = FALSE, !.refreshing = FALSE,
                      !.reported = @ \cup SubmittedIn(ValueOf(StoredSubmissions))]
  /\ UNCHANGED <<mockUser, localSubs, localAtt, sheet, now, sa, gd, ge, summaryCalls>>
  /\ UNCHANGED <<authVars, cl, form, app, day, earlier>>

\* the timer or a click runs fetchSubmissions while an earlier call of the
\* tracker is in flight and no list is stored for today: nothing in lines 13-42
\* holds the second call back, its own remote read starts
TrackerFetchSecond ==
  /\ gd.pc \in {"client", "read"}
  /\ tr.second.pc = "idle"
  /\ NoReturnPending
  /\ ~HasItem(StoredSubmissions)
  /\ \E loadingSeen \in {tr.loading, TRUE} :
       tr' = [tr EXCEPT !.error = None,
                        !.refreshing = IF loadingSeen THEN @ ELSE TRUE,
                        !.second = [SecondIdle EXCEPT !.pc = "client"]]
  /\ UNCHANGED <<mockUser, localSubs, localAtt, sheet, now, sa, gd, ge, summaryCalls>>
  /\ UNCHANGED <<authVars, cl, form, app, day, earlier>>

\* lines 248-253 in the second call: the mock list is handed back
SecondFallback ==
  \E t \in now..MaxNow :
    /\ ReadClock(t)
    /\ \E l \in getMockDepartmentSubmissions(t) :
         tr' = [tr EXCEPT !.second = [SecondIdle EXCEPT !.pc = "done", !.result = l]]

\* getAuthenticatedClient settled in the second call
TrackerSecondClient ==
  /\ tr.second.pc = "client"
  /\ NoReturnPending
  /\ \E client \in ClientOutcomes :
       IF client
       THEN /\ tr' = [tr EXCEPT !.second.pc = "read", !.second.i = 1]
            /\ UNCHANGED now
       ELSE SecondFallback
  /\ UNCHANGED <<mockUser, localSubs, localAtt, sheet, sa, gd, ge, summaryCalls>>
  /\ UNCHANGED <<authVars, cl, form, app, day, earlier>>

\* the second call has read the worksheet of department i; after the last one
\* its list is stored under today's key (line 241) and handed back
TrackerSecondRead ==
  /\ tr.second.pc = "read"
  /\ NoReturnPending
  /\ \E ok \in BOOLEAN :
       IF ok
       THEN LET acc == Append(tr.second.acc, SheetEntry(Departments[tr.second.i]))
            IN  /\ IF tr.second.i < Len(Departments)
                   THEN /\ tr' = [tr EXCEPT !.second.i = @ + 1, !.second.acc = acc]
                        /\ UNCHANGED localSubs
                   ELSE /\ localSubs' = Item(acc)
                        /\ tr' = [tr EXCEPT !.second = [SecondIdle EXCEPT !.pc = "done",
                                                                          !.result = acc]]
                /\ UNCHANGED now
       ELSE /\ SecondFallback
            /\ UNCHANGED localSubs
  /\ UNCHANGED <<mockUser, localAtt, sheet, sa, gd, ge, summaryCalls>>
  /\ UNCHANGED <<authVars, cl, form, app, day, earlier>>

\* the second call resolved but its list is dropped: the one on display stays
TrackerSecondResolveDropped ==
  /\ tr.second.pc = "done"
  /\ tr' = [tr EXCEPT !.loading = FALSE, !.refreshing = FALSE,
                      !.second = SecondIdle]
  /\ UNCHANGED <<mockUser, localSubs, localAtt, sheet, now, sa, gd, ge, summaryCalls>>
  /\ UNCHANGED <<authVars, cl, form, app, day, earlier>>

\* the second call resolved: lines 19 and 25-26 run for it as for any other,
\* its list replaces the one on display whether the earlier call is still in
\* flight or has completed meanwhile
TrackerSecondResolve ==
  /\ tr.second.pc = "done"
  /\ tr' = [tr EXCEPT !.submissions = tr.second.result, !.loading = FALSE,
                      !.refreshing = FALSE,
                      !.reported = @ \cup SubmittedIn(tr.second.result),
                      !.second = SecondIdle]
  /\ UNCHANGED <<mockUser, localSubs, localAtt, sheet, now, sa, gd, ge, summaryCalls>>
  /\ UNCHANGED <<authVars, cl, form, app, day, earlier>>

\* handleDirectLogin stores the mock-user key
MockUserStored ==
  /\ ~mockUser
  /\ sa.pc = "idle" /\ gd.pc = "idle" /\ ge.pc = "idle" /\ tr.second.pc = "idle"
  /\ mockUser' = TRUE
  /\ UNCHANGED <<localSubs, localAtt, sheet, now, sa, gd, ge, summaryCalls>>
  /\ UNCHANGED <<authVars, formVars>>

\* handleLogout removes the mock-user key
MockUserRemoved ==
  /\ mockUser
  /\ sa.pc = "idle" /\ gd.pc = "idle" /\ ge.pc = "idle" /\ tr.second.pc = "idle"
  /\ mockUser' = FALSE
  /\ UNCHANGED <<localSubs, localAtt, sheet, now, sa, gd, ge, summaryCalls>>
  /\ UNCHANGED <<authVars, formVars>>

\* the departments whose forms submit next to the tracker and the roster loads
MaxSubmittingDepartments == 1

SubmittingDepartments == {Departments[i] : i \in 1..MaxSubmittingDepartments}

NextTracker ==
  \/ \E d \in SubmittingDepartments : SubmitCall(d)
  \/ SubmitUsedRange
  \/ SubmitHeader
  \/ SubmitCell
  \/ SubmitLabel
  \/ SubmitStamp
  \/ SubmitSummary
  \/ SubmitReturn
  \/ TrackerFetch
  \/ GdsClient
  \/ GdsRead
  \/ TrackerResolve
  \/ TrackerReject
  \/ TrackerFetchOverlapping
  \/ MockUserStored
  \/ MockUserRemoved

SpecTracker == Init /\ [][NextTracker]_vars

\* the tracker with a second fetchSubmissions running next to the first
NextOverlap ==
  \/ \E d \in SubmittingDepartments : SubmitCall(d)
  \/ SubmitUsedRange
  \/ SubmitHeader
  \/ SubmitCell
  \/ SubmitLabel
  \/ SubmitStamp
  \/ SubmitSummary
  \/ SubmitReturn
  \/ TrackerFetch
  \/ GdsClient
  \/ GdsRead
  \/ TrackerResolve
  \/ TrackerReject
  \/ TrackerFetchOverlapping
  \/ TrackerFetchSecond
  \/ TrackerSecondClient
  \/ TrackerSecondRead
  \/ TrackerSecondResolve

SpecOverlap == Init /\ [][NextOverlap]_vars

(***************************************************************************)
(* GraphService: its three operations side by side, the summary within     *)
(* submitAttendance, and the mock-user key coming and going between calls  *)
(***************************************************************************)
NextGateway ==
  \/ \E d \in SubmittingDepartments : SubmitCall(d)
  \/ SubmitUsedRange
  \/ SubmitHeader
  \/ SubmitCell
  \/ SubmitLabel
  \/ SubmitStamp
  \/ SubmitSummary
  \/ SubmitReturn
  \/ GdsCall
  \/ GdsClient
  \/ GdsRead
  \/ GdsReturn
  \/ \E d \in SubmittingDepartments : GetEmployeesCall(d)
  \/ GetEmployeesClient
  \/ GetEmployeesWorksheets
  \/ GetEmployeesUsedRange
  \/ GetEmployeesReturn
  \/ MockUserStored
  \/ MockUserRemoved

SpecGateway == Init /\ [][NextGateway]_vars

(***************************************************************************)
(* The calendar: the keys and the worksheet column carry the date          *)
(***************************************************************************)
\* the days that begin after the first one
MaxDay == 1

\* midnight passes with no gateway call in flight: format(new Date(),
\* 'yyyy-MM-dd') names a new day, so submissions_<today> and every
\* attendance_<department>_<today> are keys nothing has been stored under, and
\* no header cell of a worksheet equals today; the keys and the sheet rows of
\* the day before stay where they are
NewDay ==
  /\ day < MaxDay
  /\ sa.pc = "idle" /\ gd.pc = "idle" /\ ge.pc = "idle"
  /\ day' = day + 1
  /\ earlier' = [subs |-> localSubs, att |-> localAtt]
  /\ localSubs' = NoItem
  /\ localAtt' = [d \in DepartmentSet |-> NoItem]
  /\ sheet' = [d \in DepartmentSet |->
                [sheet[d] EXCEPT !.todayColumn = FALSE, !.lastCell = NoTime,
                                 !.cells = EmptySheet(d).cells]]
  /\ UNCHANGED <<mockUser, now, sa, gd, ge, summaryCalls>>
  /\ UNCHANGED <<authVars, cl, form, app, tr>>

NextDays ==
  \/ \E d \in SubmittingDepartments : SubmitCall(d)
  \/ SubmitUsedRange
  \/ SubmitHeader
  \/ SubmitCell
  \/ SubmitLabel
  \/ SubmitStamp
  \/ SubmitSummary
  \/ SubmitReturn
  \/ GdsCall
  \/ GdsClient
  \/ GdsRead
  \/ GdsReturn
  \/ NewDay

SpecDays == Init /\ [][NextDays]_vars

(***************************************************************************)
(* App.handleLogout next to the stored attendance                          *)
(***************************************************************************)
\* the form of a signed-in user submits
SignedInSubmit(d) ==
  /\ app.isAuthenticated
  /\ ~app.authenticating
  /\ SubmitCall(d)

\* App signing in and out while attendance is submitted and stored, today and
\* on the day before
NextSignOut ==
  \/ Initialize
  \/ CheckAuthStatus
  \/ CheckAuthDone
  \/ \E e \in Emails : SetEmail(e)
  \/ \E pw \in Passwords : SetPassword(pw)
  \/ HandleDirectLogin
  \/ HandleLogout
  \/ HandleLogoutDone
  \/ \E p \in AuthCallers : LogoutStart(p)
  \/ \E p \in AuthCallers : LogoutRedirect(p)
  \/ \E p \in AuthCallers : LogoutPopup(p)
  \/ \E p \in AuthCallers : TokenStart(p)
  \/ \E p \in AuthCallers : TokenSilent(p)
  \/ \E p \in AuthCallers : TokenRedirect(p)
  \/ \E p \in AuthCallers : TokenPopup(p)
  \/ \E d \in SubmittingDepartments : SignedInSubmit(d)
  \/ SubmitUsedRange
  \/ SubmitHeader
  \/ SubmitCell
  \/ SubmitLabel
  \/ SubmitStamp
  \/ SubmitSummary
  \/ SubmitReturn
  \/ NewDay

SpecSignOut == InitApp /\ [][NextSignOut]_vars

(***************************************************************************)
(* submitAttendance on its own, with lists the worksheet does and does not *)
(* have every row for                                                      *)
(***************************************************************************)
NextWrite ==
  \/ \E d \in DepartmentSet : SubmitCall(d)
  \/ \E d \in DepartmentSet : SubmitCallUnlisted(d)
  \/ SubmitUsedRange
  \/ SubmitHeader
  \/ SubmitCell
  \/ SubmitLabel
  \/ SubmitStamp
  \/ SubmitSummary
  \/ SubmitReturn

SpecWrite == Init /\ [][NextWrite]_vars

(***************************************************************************)
(* AttendanceForm later in the day: the roster is loaded from a worksheet  *)
(* that earlier submissions have written to, and is submitted once more    *)
(***************************************************************************)
NextResubmit ==
  \/ \E d \in DepartmentSet : FormMount(d)
  \/ GetEmployeesClient
  \/ GetEmployeesWorksheets
  \/ GetEmployeesUsedRange
  \/ GetEmployeesReturn
  \/ handleSubmit
  \/ handleSubmitAgain
  \/ SubmitUsedRange
  \/ SubmitHeader
  \/ SubmitCell
  \/ SubmitLabel
  \/ SubmitStamp
  \/ SubmitSummary
  \/ SubmitReturn

SpecResubmit == InitRoster /\ [][NextResubmit]_vars


\* one attendance form: its roster is fetched, statuses are chosen for the
\* first MaxEmployees people, and the form is submitted, any number of times
NextForm ==
  \/ \E d \in DepartmentSet : FormMount(d)
  \/ GetEmployeesClient
  \/ GetEmployeesWorksheets
  \/ GetEmployeesUsedRange
  \/ GetEmployeesReturn
  \/ \E i \in 1..MaxEmployees, status \in AttendanceStatuses :
       handleStatusChange(i, status)
  \/ handleSubmit
  \/ SubmitUsedRange
  \/ SubmitHeader
  \/ SubmitCell
  \/ SubmitLabel
  \/ SubmitStamp
  \/ SubmitSummary
  \/ SubmitReturn

SpecForm == Init /\ [][NextForm]_vars

\* getExcelColumnLetter applied to every column index up to MaxColumnIndex
NextColumn ==
  \/ \E n \in 0..MaxColumnIndex : ColumnLetterCall(n)
  \/ ColumnLetterLoop
  \/ ColumnLetterReturn

\* nothing else is going on while a column letter is computed
InitColumn == InitAuthIdle /\ InitGraphIdle

SpecColumn == InitColumn /\ [][NextColumn]_vars

\* the identity service right after construction, before initialize() has run
InitAuth ==
  /\ initialized = FALSE
  /\ interactionInProgress = FALSE
  /\ msalAccounts \in {<<>>, <<MsalAccount>>}
  /\ activeAccount = None
  /\ mockAccount \in {None, MockAccountJson, CorruptJson}
  /\ authPc = [p \in AuthCallers |-> "idle"]
  /\ authRes = [p \in AuthCallers |-> None]
  /\ InitGraphIdle

NextAuth ==
  \/ Initialize
  \/ \E p \in AuthCallers : GetAccountCall(p)
  \/ \E p \in AuthCallers : LoginCall(p)
  \/ \E p \in AuthCallers : LoginStart(p)
  \/ \E p \in AuthCallers : LoginSilent(p)
  \/ \E p \in AuthCallers : LoginRedirect(p)
  \/ \E p \in AuthCallers : LoginPopup(p)
  \/ \E p \in AuthCallers : LoginToken(p)
  \/ \E p \in AuthCallers : CredCall(p)
  \/ \E p \in AuthCallers : CredStart(p)
  \/ \E p \in AuthCallers : CredDone(p)
  \/ \E p \in AuthCallers : LogoutCall(p)
  \/ \E p \in AuthCallers : LogoutStart(p)
  \/ \E p \in AuthCallers : LogoutRedirect(p)
  \/ \E p \in AuthCallers : LogoutPopup(p)
  \/ \E p \in AuthCallers : TokenCall(p)
  \/ \E p \in AuthCallers : TokenStart(p)
  \/ \E p \in AuthCallers : TokenSilent(p)
  \/ \E p \in AuthCallers : TokenRedirect(p)
  \/ \E p \in AuthCallers : TokenPopup(p)
  \/ \E p \in AuthCallers : AuthReturn(p)

SpecAuth == InitAuth /\ [][NextAuth]_vars

AuthTypeOK ==
  /\ initialized \in BOOLEAN
  /\ interactionInProgress \in BOOLEAN
  /\ authPc \in [AuthCallers -> AuthPcs]
  /\ authRes \in [AuthCallers -> AuthResults]

(***************************************************************************)
(* Claims about AuthService                                                *)
(***************************************************************************)
Interactive(p) == authPc[p] \in InteractivePcs

\* C1: at most one interactive identity flow (the interactive part of login,
\* getToken, logout or loginWithCredentials) is in progress in every reachable
\* state, under any interleaving of concurrently started auth operations.
C1_AtMostOneInteractiveFlow ==
  Cardinality({p \in AuthCallers : Interactive(p)}) <= 1

\* C2: while an interactive flow is running the interaction-in-progress flag
\* stays set (a rejected second attempt leaves it alone), so that any further
\* attempt made before the first flow finishes is rejected as well.
C2_FlagHeldUntilFlowFinishes ==
  (\E p \in AuthCallers : Interactive(p)) => interactionInProgress

(***************************************************************************)
(* Claims about GraphService and the tracker                               *)
(***************************************************************************)
\* the entry of department d in a submissions list says submitted
ReportsSubmitted(list, d) ==
  \E i \in 1..Len(list) : list[i].department = d /\ list[i].submitted

\* the number of entries a submissions list holds for department d
EntriesFor(list, d) == Cardinality({i \in 1..Len(list) : list[i].department = d})

\* a getDepartmentSubmissions call has just handed back its list
GdsSettled == gd.pc = "done"

\* C3: once submitAttendance(d, ...) has returned, a getDepartmentSubmissions
\* call made afterwards on the same day reports d as submitted, whatever the
\* remote write did.
C3_SubmittedAfterSubmit ==
  GdsSettled =>
    \A d \in gd.submittedBefore : ReportsSubmitted(gd.result, d)

\* C4: the tracker's allSubmitted is true exactly when every one of the five
\* departments has submitted = true in the list that was fetched.
C4_AllSubmittedIffAllFive ==
  GdsSettled =>
    (TrackerView(gd.result).allSubmitted
       <=> \A d \in DepartmentSet : ReportsSubmitted(gd.result, d))

\* C5: no summary is attempted while fewer than all five departments have
\* submitted; with four submitted the tracker shows 4/5 and not allSubmitted.
C5_NoSummaryBeforeAllSubmitted ==
  /\ summaryCalls > 0 => SubmittedDepartments = DepartmentSet
  /\ (GdsSettled /\ Cardinality(gd.submittedBefore) = 4
        /\ gd.submittedBefore = SubmittedDepartments)
       => /\ TrackerView(gd.result) =
               [allSubmitted |-> FALSE, submittedCount |-> 4, totalCount |-> 5]
          /\ summaryCalls = 0

\* C6: over all the submitAttendance calls of one day, re-submissions included,
\* sendAttendanceSummaryToTeams is invoked at most once.
C6_SummaryAtMostOnce == summaryCalls <= 1

\* the local part of the submitAttendance call in flight runs in this step
SubmitLocalStep ==
  /\ sa.pc \notin {"idle", "summary", "done"}
  /\ sa'.pc \in {"summary", "done"}

\* C7: when the fifth distinct department submits after the other four have,
\* that call invokes the summary before it returns and the stored list, which
\* the tracker then shows, is 5/5 with allSubmitted.
C7_FifthSubmitSendsSummary ==
  [][(/\ SubmitLocalStep
      /\ sa.department \notin SubmittedDepartments
      /\ Returned = DepartmentSet \ {sa.department})
       => /\ summaryCalls' = summaryCalls + 1
          /\ sa'.pc = "summary"
          /\ TrackerView(ValueOf(StoredSubmissions')) =
               [allSubmitted |-> TRUE, submittedCount |-> 5, totalCount |-> 5]]_vars

\* C8: getDepartmentSubmissions always returns exactly one entry for each of
\* the five departments, none missing and none duplicated.
C8_OneEntryPerDepartment ==
  GdsSettled =>
    /\ Len(gd.result) = Len(Departments)
    /\ \A d \in DepartmentSet : EntriesFor(gd.result, d) = 1

\* the stored submissions list, empty when the key is absent
StoredList == IF HasItem(localSubs) THEN ValueOf(localSubs) ELSE <<>>

\* C9: the stored list never holds two entries for one department, and a
\* submission for a department that already submitted today leaves the length
\* of the list unchanged while setting that department's timestamp to the time
\* of the new submission.
C9_ResubmitKeepsOneEntry ==
  /\ [](\A d \in DepartmentSet : EntriesFor(StoredList, d) <= 1)
  /\ [][(SubmitLocalStep /\ sa.department \in SubmittedDepartments)
          => /\ Len(StoredList') = Len(StoredList)
             /\ \E i \in 1..Len(StoredList') :
                  /\ StoredList'[i].department = sa.department
                  /\ StoredList'[i].submitted
                  /\ StoredList'[i].submittedAt = now']_vars

\* a department has been submitted a second time, at a later time than the first
C9_Witness ==
  /\ sa.pc \in {"summary", "done"}
  /\ sa.again
  /\ now > 0
  /\ ReportsSubmitted(StoredList, sa.department)
  /\ \E i \in 1..Len(StoredList) :
       StoredList[i].department = sa.department /\ StoredList[i].submittedAt = now
  /\ \E i \in 1..Len(StoredList) : StoredList[i].submittedAt = 0

\* C10: whenever the remote path of getEmployeesByDepartment(d) fails, the call
\* still returns, and what it returns is a non-empty list of d's employees.
C10_RosterNeverEmptyOnFailure ==
  (ge.pc = "done" /\ ge.failed) =>
    /\ Len(ge.result) > 0
    /\ \A i \in 1..Len(ge.result) : ge.result[i].department = ge.department

\* the remote read of a roster has failed for a reason other than a mock user
C10_Witness ==
  /\ ge.pc = "done"
  /\ ge.failed
  /\ ~mockUser
  /\ ge.department = "XR Development"
  /\ Len(ge.result) = 4

(***************************************************************************)
(* Claims about getExcelColumnLetter                                       *)
(***************************************************************************)
\* the place of a letter in the alphabet, 1 for A up to 26 for Z
LetterRank(c) == CHOOSE i \in 1..26 : Letters[i] = c

RECURSIVE ColumnNumber(_)
\* the number of the spreadsheet column a name stands for: A is 1, Z is 26,
\* AA is 27 (bijective base 26)
ColumnNumber(name) ==
  IF name = <<>> THEN 0
  ELSE 26 * ColumnNumber(SubSeq(name, 1, Len(name) - 1))
         + LetterRank(name[Len(name)])

\* C11: getExcelColumnLetter maps every index n >= 0 to the name of the
\* (n+1)-th spreadsheet column, so that distinct indexes get distinct names
\* (0 is A, 25 is Z, 26 is AA, 27 is AB, 701 is ZZ, 702 is AAA), and its loop
\* terminates: the index strictly decreases and never goes below -1.
C11_ColumnLetterIsColumnName ==
  /\ [](cl.pc = "done" =>
          /\ Len(cl.columnLetter) >= 1
          /\ ColumnNumber(cl.columnLetter) = cl.input + 1
          /\ cl.input = 0 => cl.columnLetter = <<"A">>
          /\ cl.input = 25 => cl.columnLetter = <<"Z">>
          /\ cl.input = 26 => cl.columnLetter = <<"A", "A">>
          /\ cl.input = 27 => cl.columnLetter = <<"A", "B">>
          /\ cl.input = 701 => cl.columnLetter = <<"Z", "Z">>
          /\ cl.input = 702 => cl.columnLetter = <<"A", "A", "A">>)
  /\ [][(cl.pc = "loop" /\ cl'.pc = "loop")
          => /\ cl'.columnIndex < cl.columnIndex
             /\ cl'.columnIndex >= -1]_vars

\* the call for index 702 has ended with a three-letter name
C11_Witness ==
  /\ cl.pc = "done"
  /\ cl.input = 702
  /\ Len(cl.columnLetter) = 3

(***************************************************************************)
(* Claims about the attendance form and the local mirror                   *)
(***************************************************************************)
\* the attendance list stored for department d, empty when the key is absent
StoredAttendance(d) ==
  IF HasItem(localAtt[d]) THEN ValueOf(localAtt[d]) ELSE <<>>

\* C12: an employee submitted through the form without a chosen status is
\* recorded as "absent": the list handed to submitAttendance, the list stored
\* locally and every status cell written remotely carry a concrete status,
\* which is "absent" wherever the form had none.
C12_UnsetStatusRecordedAbsent ==
  /\ [](\A d \in DepartmentSet :
          /\ \A i \in 1..Len(StoredAttendance(d)) :
               StoredAttendance(d)[i].status \in AttendanceStatuses
          /\ \A r \in 1..Len(sheet[d].cells) :
               sheet[d].cells[r] \in AttendanceStatuses \cup {None})
  /\ [][(sa.pc = "idle" /\ sa'.pc = "read")
          => /\ Len(sa'.employees) = Len(form.employees)
             /\ \A i \in 1..Len(form.employees) :
                  sa'.employees[i].status =
                    IF form.employees[i].status = None THEN "absent"
                    ELSE form.employees[i].status]_vars
  /\ [][(sa.pc \notin {"idle", "summary", "done"}
           /\ sa'.pc \in {"summary", "done"})
          => \A i \in 1..Len(sa.employees) :
               StoredAttendance(sa.department)'[i].status
                 = sa.employees[i].status]_vars
  /\ [][sa.pc = "cell"
          => \A r \in 1..Len(sheet[sa.department].cells) :
               sheet'[sa.department].cells[r] # sheet[sa.department].cells[r]
                 => sheet'[sa.department].cells[r] = sa.employees[sa.k].status]_vars

\* a form with one status chosen and one left unset has been submitted: the
\* unset one is stored, and written to its cell, as "absent"
C12_Witness ==
  /\ sa.pc = "done"
  /\ Len(form.employees) >= 2
  /\ form.employees[1].status = "late"
  /\ form.employees[2].status = None
  /\ StoredAttendance(sa.department)[1].status = "late"
  /\ StoredAttendance(sa.department)[2].status = "absent"
  /\ sheet[sa.department].cells[1] = "late"
  /\ sheet[sa.department].cells[2] = "absent"

\* C13: a failure of the summary notification never surfaces to the caller of
\* submitAttendance: the call still returns true and the attendance and
\* submission entries stored before the attempt are left as they were.
C13_SummaryFailureSwallowed ==
  /\ []((sa.pc = "done" /\ sa.summary \notin {None, "sent"})
          => sa.result = "true")
  /\ [][(sa.pc = "summary" /\ sa'.pc = "done")
          => /\ sa'.result = "true"
             /\ localAtt' = localAtt
             /\ localSubs' = localSubs]_vars

\* the post of the summary was rejected and submitAttendance returned true with
\* the department's entries stored
C13_Witness ==
  /\ sa.pc = "done"
  /\ sa.summary = "post_rejected"
  /\ sa.result = "true"
  /\ HasItem(localAtt[sa.department])
  /\ ReportsSubmitted(StoredList, sa.department)

\* C14: once submitAttendance(d, employees) has run its local part, the entry
\* attendance_<d>_<today> holds exactly the list passed in, a re-submission
\* replacing the earlier one, whatever the remote write did; the entries of
\* the other departments are not touched.
C14_LocalMirrorHoldsListPassed ==
  /\ [](sa.pc \in {"summary", "done"}
          => localAtt[sa.department] = Item(sa.employees))
  /\ [][\A d \in DepartmentSet :
          (d # sa.department /\ d # sa'.department) => localAtt'[d] = localAtt[d]]_vars

\* a re-submission with another status than the form now shows has been stored
C14_Witness ==
  /\ sa.pc = "done"
  /\ sa.again
  /\ Len(form.employees) >= 1
  /\ sa.employees[1].status = "sick"
  /\ form.employees[1].status = "present"
  /\ StoredAttendance(sa.department) = sa.employees

(***************************************************************************)
(* Claims about the source of getDepartmentSubmissions                     *)
(***************************************************************************)
\* C15: whenever the remote API is reachable, getDepartmentSubmissions reports a
\* department as submitted exactly when its worksheet carries today's
\* submission marker, even if the list stored locally says otherwise.
C15_RemoteIsSourceOfTruth ==
  (GdsSettled /\ ~mockUser /\ gd.source \in {"local", "remote"})
    => \A d \in DepartmentSet :
         ReportsSubmitted(gd.result, d) <=> SheetSubmitted(d)

\* C16: getDepartmentSubmissions takes the stored list when it is a non-empty
\* array; otherwise it reads the worksheets' markers in department order and
\* stores the list it built; and when that read fails it returns a synthesized
\* list in which a department is submitted exactly when an attendance entry is
\* stored for it today, leaving the stored list alone.
C16_SourceOrder ==
  /\ [](GdsSettled => gd.source \in {"local", "remote", "mock"})
  /\ [][(gd.pc = "idle" /\ gd'.pc # "idle")
          => IF HasItem(StoredSubmissions)
             THEN /\ gd'.pc = "done"
                  /\ gd'.source = "local"
                  /\ gd'.result = ValueOf(StoredSubmissions)
                  /\ localSubs' = localSubs
             ELSE /\ gd'.pc = "client"
                  /\ localSubs' = localSubs]_vars
  /\ [][(gd.pc = "read" /\ gd'.pc = "read" /\ gd' # gd)
          => /\ gd'.i = gd.i + 1
             /\ gd'.acc = Append(gd.acc, SheetEntry(Departments[gd.i]))]_vars
  /\ [][(gd.pc \in {"client", "read"} /\ gd'.pc = "done")
          => \/ /\ gd'.source = "remote"
                /\ gd.pc = "read"
                /\ gd.i = Len(Departments)
                /\ gd'.result = Append(gd.acc, SheetEntry(Departments[gd.i]))
                /\ localSubs' = Item(gd'.result)
             \/ /\ gd'.source = "mock"
                /\ localSubs' = localSubs
                /\ Len(gd'.result) = Len(Departments)
                /\ \A i \in 1..Len(Departments) :
                     /\ gd'.result[i].department = Departments[i]
                     /\ gd'.result[i].submitted
                          <=> HasItem(localAtt[Departments[i]])]_vars

\* the remote read failed and the synthesized list reports a department whose
\* attendance was stored while the read was under way
C16_Witness ==
  /\ GdsSettled
  /\ gd.source = "mock"
  /\ \E d \in DepartmentSet : ReportsSubmitted(gd.result, d)

(***************************************************************************)
(* Claims about the sign-in and token flows                                *)
(***************************************************************************)
\* the positions at which a caller has set the interaction flag itself
HoldsFlagPcs == InteractivePcs \cup {"login_token"}

\* no caller is inside an AuthService method
AuthQuiescent == \A p \in AuthCallers : authPc[p] \in {"idle", "done"}

\* C17: login, getToken, logout and loginWithCredentials clear the flag on every
\* exit path of their interactive part, by return or by throw, so the flag is
\* false whenever no auth operation is in flight.
C17_FlagClearedOnEveryExit ==
  /\ [](AuthQuiescent => ~interactionInProgress)
  /\ [][\A p \in AuthCallers :
          (authPc[p] \in HoldsFlagPcs /\ authPc'[p] = "done")
            => ~interactionInProgress']_vars

\* an interactive flow has ended by a throw, nothing is in flight and the flag
\* is clear
C17_Witness ==
  /\ AuthQuiescent
  /\ ~interactionInProgress
  /\ \E p \in AuthCallers : authPc[p] = "done" /\ authRes[p] = "error"

\* C18: login first tries silent reuse and, when that succeeds, starts no
\* interactive flow and does not set the flag; otherwise the redirect is tried
\* first and the popup only after the redirect failed; a login that succeeds
\* silently or by popup leaves an active account set.
C18_SilentThenRedirectThenPopup ==
  [][\A p \in AuthCallers :
          /\ (authPc[p] = "login_silent" /\ authPc'[p] = "done")
               => /\ authRes'[p] = "ok"
                  /\ interactionInProgress' = interactionInProgress
                  /\ activeAccount' # None
          /\ (authPc[p] = "login_init" /\ authPc'[p] = "login_silent")
               => interactionInProgress' = interactionInProgress
          /\ (authPc[p] \notin InteractiveLoginPcs
                /\ authPc'[p] \in InteractiveLoginPcs)
               => authPc'[p] = "login_redirect"
          /\ (authPc[p] # "login_popup" /\ authPc'[p] = "login_popup")
               => authPc[p] = "login_redirect"
          /\ (authPc[p] = "login_token" /\ authPc'[p] = "done")
               => /\ authRes'[p] = "ok"
                  /\ activeAccount' # None]_vars

\* C19: getToken falls back as login does when the silent renewal needs
\* interaction: the redirect first, and the popup only if the redirect failed,
\* never after a redirect that was initiated.
C19_TokenPopupOnlyAfterFailedRedirect ==
  \A p \in AuthCallers :
       authPc[p] = "token_popup" => authRes[p] # "redirect"

\* C20: getToken fails with NoActiveSession whenever getAccount() finds no
\* account (none active, none cached, no persisted fallback account), and never
\* gets as far as the silent or the interactive acquisition then.
C20_NoActiveSessionWithoutAccount ==
  [][\A p \in AuthCallers :
       (authPc[p] = "token_init" /\ authPc'[p] # "token_init")
         => IF /\ activeAccount = None
               /\ msalAccounts = <<>>
               /\ mockAccount \in {None, CorruptJson}
            THEN /\ authPc'[p] = "done"
                 /\ authRes'[p] = "NoActiveSession"
            ELSE authPc'[p] = "token_silent"]_vars

\* a getToken call has just failed for want of any account
C20_Witness ==
  /\ activeAccount = None
  /\ msalAccounts = <<>>
  /\ mockAccount = None
  /\ \E p \in AuthCallers :
       authPc[p] = "done" /\ authRes[p] = "NoActiveSession"

\* another caller than p is inside an interactive flow
OtherFlowInFlight(p) ==
  \E q \in AuthCallers \ {p} : authPc[q] \in InteractivePcs

\* C21: logout is idempotent: with no session it completes without error,
\* starts no interactive flow and changes nothing, so a second call in a row
\* leaves the state of the first; and called while another interactive flow is
\* in flight it fails with InteractionConflict.
C21_LogoutIdempotent ==
  [][\A p \in AuthCallers :
       (authPc[p] = "logout_init" /\ authPc'[p] # "logout_init")
         => /\ (getAccount = None /\ ~interactionInProgress)
                 => /\ authPc'[p] = "done"
                    /\ authRes'[p] = "ok"
                    /\ msalAccounts' = msalAccounts
                    /\ activeAccount' = activeAccount
                    /\ mockAccount' = None
                    /\ interactionInProgress' = interactionInProgress
            /\ OtherFlowInFlight(p)
                 => /\ authPc'[p] = "done"
                    /\ authRes'[p] = "InteractionConflict"]_vars

\* C30: an auth operation that does not hold the interaction flag never clears
\* it: getToken failing for want of an account or on a non-interaction error,
\* and logout or loginWithCredentials rejected at their flag check, leave the
\* flag of the flow in flight set.
C30_RejectedCallKeepsFlag ==
  [][\A p \in AuthCallers :
       (/\ authPc[p] \in {"token_init", "token_silent", "logout_init", "cred_init"}
        /\ authPc'[p] = "done"
        /\ authRes'[p] \in {"NoActiveSession", "error", "InteractionConflict"}
        /\ interactionInProgress
        /\ \E q \in AuthCallers \ {p} : authPc[q] \in HoldsFlagPcs)
         => interactionInProgress']_vars

\* a getAccount() call by p returns on this step
GetAccountStep(p) ==
  /\ authPc[p] = "idle"
  /\ authPc'[p] = "done"
  /\ authRes'[p] \notin {"InteractionConflict", "NoActiveSession", "error"}

\* C23: getAccount never throws and returns null before initialization has
\* completed; otherwise the active account, else the first cached provider
\* account, else the persisted fallback account if it parses, else null.
C23_GetAccountPriority ==
  [][\A p \in AuthCallers :
       GetAccountStep(p)
         => /\ authRes'[p] # "SyntaxError"
            /\ ~initialized => authRes'[p] = "no_account"
            /\ (initialized /\ activeAccount # None)
                 => authRes'[p] = activeAccount
            /\ (initialized /\ activeAccount = None /\ msalAccounts # <<>>)
                 => authRes'[p] = Head(msalAccounts)
            /\ (initialized /\ activeAccount = None /\ msalAccounts = <<>>)
                 => authRes'[p] =
                      CASE mockAccount = None -> "no_account"
                        [] mockAccount = CorruptJson -> "no_account"
                        [] OTHER -> mockAccount]_vars

\* getAccount has returned null over a stored fallback account that is not JSON
C23_Witness ==
  /\ initialized
  /\ mockAccount = CorruptJson
  /\ \E p \in AuthCallers : authPc[p] = "done" /\ authRes[p] = "no_account"

\* C27: done is terminal for an attendance form: once a submit of the form has
\* succeeded, the form takes no further status edit and starts no further
\* submitAttendance call; only a form mounted anew can submit.
C27_DoneIsTerminal ==
  [][(form.done /\ form'.done)
       => /\ form'.employees = form.employees
          /\ ~(sa.pc = "idle" /\ sa'.pc # "idle")]_vars

(***************************************************************************)
(* Claims about App                                                        *)
(***************************************************************************)
\* C22: sign-out destroys the session and the identity keys: once
\* App.handleLogout has completed no account is retrievable, neither the
\* fallback-account key nor the mock-user key is left, and no reload brings the
\* authenticated state back before a new sign-in, also when the provider's
\* logout failed or was rejected.
C22_SignOutDestroysSession ==
  /\ [][(app.pc = "logout" /\ app'.pc = "idle")
          => /\ getAccount' = None
             /\ mockAccount' = None
             /\ ~mockUser']_vars
  /\ [](app.signedOut => ~app.isAuthenticated)

\* the form is submitted on this step with the fields it shows
DirectLoginStep ==
  /\ LoginPageShown
  /\ app'.pc = "idle"
  /\ app'.email = app.email
  /\ app'.password = app.password
  /\ <<app, mockUser>>' # <<app, mockUser>>

\* C25: a fallback sign-in with an empty email or an empty password is rejected
\* with the validation error and changes nothing else: the user stays
\* unauthenticated, no mock-user key is stored, and loginInProgress and
\* authenticating are false afterwards.
C25_EmptyCredentialsRejected ==
  [][(DirectLoginStep /\ (app.email = "" \/ app.password = ""))
       => /\ app'.authError = "validation"
          /\ ~app'.isAuthenticated
          /\ mockUser' = mockUser
          /\ ~app'.loginInProgress
          /\ ~app'.authenticating
          /\ authVars' = authVars]_vars

\* the form was submitted with the password empty and the user is still out
C25_Witness ==
  /\ app.authError = "validation"
  /\ app.email # ""
  /\ app.password = ""
  /\ ~app.isAuthenticated
  /\ ~mockUser

C28_SubmittedIsMonotonic ==
  /\ [](GdsSettled => \A d \in tr.reportedBefore : ReportsSubmitted(gd.result, d))
  /\ [][(gd.pc \in {"client", "read"} /\ gd' = gd /\ tr' # tr)
          => \A d \in tr.reported : ReportsSubmitted(tr'.submissions, d)]_vars

C29_NewDayStartsUnsubmitted ==
  [](( /\ GdsSettled
       /\ SubmittedDepartments = {}
       /\ \A d \in DepartmentSet : ~SheetSubmitted(d) )
     => /\ Len(gd.result) = Len(Departments)
        /\ \A i \in 1..Len(gd.result) :
             /\ gd.result[i].department = Departments[i]
             /\ ~gd.result[i].submitted)

\* on the second day, after a first day whose stored list and attendance key
\* report a submission, a getDepartmentSubmissions call has ended before any
\* submission of the second day
C29_Witness ==
  /\ day = 1
  /\ HasItem(earlier.subs)
  /\ SubmittedIn(ValueOf(earlier.subs)) # {}
  /\ \E d \in DepartmentSet : HasItem(earlier.att[d])
  /\ GdsSettled
  /\ SubmittedDepartments = {}
  /\ \A d \in DepartmentSet : ~SheetSubmitted(d)

\* the names a sequence lists
Listed(names) == {names[i] : i \in 1..Len(names)}

\* C31: the summary message accounts for every employee of the day's stored
\* attendance lists: each one is named in exactly one status group of their
\* department's section, whichever of the six statuses they have.
C31_SummaryAccountsForEveryone ==
  [](( sa.pc = "done" /\ HasItem(sa.message) ) =>
       \A d \in DepartmentSet :
         HasItem(localAtt[d]) =>
           \A i \in 1..Len(ValueOf(localAtt[d])) :
             LET e == ValueOf(localAtt[d])[i]
                 section == ValueOf(sa.message)[e.department]
             IN  Cardinality({g \in DOMAIN section : e.name \in Listed(section[g])}) = 1)

\* the remote part of the submitAttendance call that has just ended wrote its
\* timestamp: "Successfully submitted attendance to Excel"
RemoteSucceeded ==
  /\ sa.pc \in {"summary", "done"}
  /\ sa.stamp # NoTime
  /\ sheet[sa.department].lastCell = sa.stamp

\* C32: a submitAttendance(d, employees) whose remote part succeeded has
\* written, for every employee of the list, that employee's status into their
\* cell of today's column; no employee's cell was skipped.
C32_EveryEmployeeCellWritten ==
  [](RemoteSucceeded =>
       \A i \in 1..Len(sa.employees) :
         \E r \in 1..Len(WorkbookNames(sa.department)) :
           /\ WorkbookNames(sa.department)[r] = sa.employees[i].name
           /\ sheet[sa.department].cells[r] = CellValue(sa.employees[i]))

\* C33: submissions do not change the roster: whatever remote submissions have
\* been made for a department, a roster read from its worksheet lists the
\* people the worksheet listed before the first submission, and never a
\* "Submission Status" row.
C33_RosterUnchangedBySubmission ==
  []((ge.pc = "done" /\ ~ge.failed) =>
       /\ [i \in 1..Len(ge.result) |-> ge.result[i].name] = WorkbookNames(ge.department)
       /\ \A i \in 1..Len(ge.result) : ge.result[i].name # SubmissionStatusLabel)

\* every employee of the call in flight who has a row has their status in
\* their cell of today's column
CellsWritten ==
  \A i \in 1..Len(sa.employees) :
    \A r \in 1..Len(WorkbookNames(sa.department)) :
      WorkbookNames(sa.department)[r] = sa.employees[i].name
        => sheet[sa.department].cells[r] = CellValue(sa.employees[i])

\* C34: the remote write of submitAttendance goes header, then the status
\* cells, then the label and the timestamp: a cell is written only under a
\* header, the timestamp only after every cell write of the call has
\* completed, and a call whose write failed writes nothing after the failure,
\* so it leaves no timestamp of its own.
C34_MarkerWrittenLast ==
  /\ [][\A d \in DepartmentSet :
          sheet'[d].todayColumn # sheet[d].todayColumn
            => (/\ sa.department = d
                /\ sa.pc = "header"
                /\ sheet[d].cells = EmptySheet(d).cells)]_vars
  /\ [][\A d \in DepartmentSet :
          sheet'[d].cells # sheet[d].cells
            => (sa.department = d /\ sa.pc = "cell" /\ sheet[d].todayColumn)]_vars
  /\ [][\A d \in DepartmentSet :
          sheet'[d].statusRows # sheet[d].statusRows
            => (/\ sa.department = d
                /\ sa.pc = "label"
                /\ sheet[d].todayColumn
                /\ CellsWritten)]_vars
  /\ [][\A d \in DepartmentSet :
          (sheet'[d].lastCell # sheet[d].lastCell /\ sheet'[d].lastCell # NoTime)
            => (/\ sa.department = d
                /\ sa.pc = "stamp"
                /\ sheet'[d].lastCell = sa.stamp
                /\ sheet[d].todayColumn
                /\ sheet[d].statusRows > 0
                /\ CellsWritten)]_vars
  /\ [][(sa.pc \in {"read", "header", "cell", "label"}
           /\ sa'.pc \in {"summary", "done"})
          => sheet' = sheet]_vars

\* C35: submissions of one department that follow one another on the same day
\* use the same date column: a call patches a header cell only when the header
\* row read just before has no cell with today's date, so the row never holds
\* today's date twice.
C35_OneColumnPerDay ==
  /\ [](sa.pc = "header" => ~sheet[sa.department].todayColumn)
  /\ [][(sa.pc # "header" /\ sa'.pc = "header")
          => (sa.pc = "read" /\ ~sheet[sa'.department].todayColumn)]_vars
  /\ [][(sa.pc = "header" /\ sheet' # sheet)
          => sheet' = [sheet EXCEPT ![sa.department].todayColumn = TRUE]]_vars

\* a second remote submission of the day has succeeded after the first one
\* wrote the header, its label row and the local copy
C35_Witness ==
  /\ RemoteSucceeded
  /\ sa.again
  /\ sheet[sa.department].todayColumn
  /\ sheet[sa.department].statusRows = MaxStatusRows + 1

\* the entries a submissions list holds for departments other than d, in order
OtherEntries(stored, d) ==
  LET other(e) == e.department # d
  IN  SelectSeq(IF HasItem(stored) THEN ValueOf(stored) ELSE <<>>, other)

\* the local part of the submitAttendance call in flight runs in this step
LocalPartStep ==
  /\ sa.pc \in {"read", "header", "cell", "label", "stamp"}
  /\ sa'.pc \in {"summary", "done"}

\* C36: submitAttendance(d, ...) changes only d's data in the local store: the
\* stored attendance lists and the submissions entries of every other
\* department are the same after the call's local part as before it, and no
\* other step of the call writes to the local store.
C36_OnlyOwnDepartmentChanged ==
  /\ [][LocalPartStep =>
          /\ \A d \in DepartmentSet \ {sa.department} : localAtt'[d] = localAtt[d]
          /\ OtherEntries(localSubs', sa.department) = OtherEntries(localSubs, sa.department)]_vars
  /\ [][(sa' # sa /\ ~LocalPartStep)
          => (localAtt' = localAtt /\ localSubs' = localSubs)]_vars

\* a department's call has stored its data while another department's
\* attendance list and submitted entry were in the store
C36_Witness ==
  /\ sa.pc \in {"summary", "done"}
  /\ HasItem(localAtt[sa.department])
  /\ \E d \in DepartmentSet \ {sa.department} :
       /\ HasItem(localAtt[d])
       /\ HasItem(localSubs)
       /\ ReportsSubmitted(ValueOf(localSubs), d)
       /\ ReportsSubmitted(ValueOf(localSubs), sa.department)

\* the employees shown change in this step, and not because a roster arrives
\* or the form is mounted again
StatusEditStep ==
  /\ form'.employees # form.employees
  /\ form'.employees # <<>>
  /\ ge.pc # "done"

\* C37: a status edit changes the status of the employee with the given id and
\* nothing else: the list keeps its length and order, every other employee
\* keeps their status, and the roster load, the submission in flight and the
\* form's other fields are untouched, however many edits follow one another.
C37_EditChangesOneStatus ==
  [][StatusEditStep =>
       /\ Len(form'.employees) = Len(form.employees)
       /\ \A j \in 1..Len(form.employees) :
            form'.employees[j] = [form.employees[j] EXCEPT !.status = form'.employees[j].status]
       /\ Cardinality({j \in 1..Len(form.employees) :
                         form'.employees[j].status # form.employees[j].status}) = 1
       /\ form'.department = form.department
       /\ form'.done = form.done
       /\ sa' = sa
       /\ ge' = ge]_vars

\* the first employee's status has been edited and the second's has not
C37_Witness ==
  /\ Len(form.employees) >= 2
  /\ form.employees[1].status \in AttendanceStatuses
  /\ form.employees[2].status = None


\* C38: when two fetches of the tracker overlap, each runs to its own
\* completion: a call ends only by resolving or rejecting, a call that has
\* settled can always complete and a call that is reading can always read on
\* whatever the other one is doing, the completion of one leaves the other
\* call as it is, and every completion that resolves puts its own list on
\* display, so that after both the list shown is that of the read that
\* completed last
C38_LastCompletedReadIsShown ==
  /\ [][(tr.second.pc = "done" /\ tr'.second.pc = "idle")
          => tr'.submissions = tr.second.result /\ gd' = gd]_vars
  /\ [][(gd.pc = "done" /\ gd'.pc = "idle")
          => tr'.submissions = gd.result /\ tr'.second = tr.second]_vars
  /\ [][(tr.second.pc # "idle" /\ tr'.second.pc = "idle")
          => tr.second.pc = "done"]_vars
  /\ [][(gd.pc # "idle" /\ gd'.pc = "idle")
          => gd.pc \in {"done", "failed"}]_vars
  /\ [](tr.second.pc = "done" => ENABLED TrackerSecondResolve)
  /\ [](gd.pc = "done" => ENABLED TrackerResolve)
  /\ []((tr.second.pc = "read" /\ NoReturnPending) => ENABLED TrackerSecondRead)
  /\ []((gd.pc = "read" /\ NoReturnPending) => ENABLED GdsRead)

\* the earlier call has completed and its list is on display, the second has
\* resolved with a different list and is about to complete
C38_Witness ==
  /\ gd.pc = "idle"
  /\ tr.second.pc = "done"
  /\ Len(tr.submissions) = Len(Departments)
  /\ tr.submissions # tr.second.result
  /\ SubmittedIn(tr.second.result) # {}

\* a step of signing out: handleLogout before or after its await, or a step of
\* the authService.logout() it awaits
SignOutStep ==
  \/ HandleLogout
  \/ HandleLogoutDone
  \/ /\ authPc[AppCaller] \in {"logout_init", "logout_redirect", "logout_popup"}
     /\ authPc'[AppCaller] # authPc[AppCaller]

\* C39: no step of signing out touches the attendance or the submissions
\* stored for today or for an earlier day; of the stored keys it changes
\* nothing but the mock user, the mock account and the provider's cache
C39_SignOutKeepsAttendanceRecords ==
  /\ [][SignOutStep => /\ localAtt' = localAtt
                       /\ localSubs' = localSubs
                       /\ earlier' = earlier]_vars
  /\ [][(app.pc = "logout" /\ app'.pc = "idle")
          => /\ ~mockUser'
             /\ mockAccount' = None \/ authRes[AppCaller] # "ok"]_vars

\* signed out with attendance and submissions stored for today and for the
\* day before
C39_Witness ==
  /\ app.signedOut
  /\ ~app.isAuthenticated
  /\ HasItem(localSubs)
  /\ \E d \in DepartmentSet : HasItem(localAtt[d])
  /\ HasItem(earlier.subs)
  /\ \E d \in DepartmentSet : HasItem(earlier.att[d])
====
